---- MODULE Spec2Model ----
(***************************************************************************)
(* Time range and interval computation of the data package (rangeutil):    *)
(* the expression describer, the interval parser and calculator and the    *)
(* relative/absolute converter, modelled operation by operation.           *)
(*                                                                         *)
(* Strings are TLA+ strings.  The Cyrillic display labels of the source    *)
(* are written in Latin transliteration, one label per source label (the   *)
(* labels are only ever copied and compared, never inspected).             *)
(***************************************************************************)
EXTENDS Integers, Sequences, FiniteSets, TLC

VARIABLES
  op,         \* the exported function whose call has just completed, or "idle"
  arg,        \* the arguments of that call
  result,     \* its outcome: Return(value) or Throw(error)
  rangeIndex, \* the module-level preset index
  callers,    \* concurrent callers of the describer: each one's position and locals
  data_source, \* the rows of the data_source table
  nextID      \* the id the table gives the next inserted row

vars == <<op, arg, result, rangeIndex, callers, data_source, nextID>>

\* ------------------------------------------------------------------ values

\* The value JavaScript gives an absent property or a function without a value.
Undefined == "<undefined>"

\* parseInt of a string that does not start with a numeral.
NaN == "NaN"

Return(v) == [kind |-> "return", value |-> v]

Throw(e) == [kind |-> "throw", error |-> e]

\* The element of a one-element set.  The({F(x) : x \in {e}}) is F applied to the
\* value of e, computed once, as a local variable of the source holds it.
The(S) == CHOOSE x \in S : TRUE

\* Property lookup on an object: the value, or Undefined when it is absent.
Get(obj, key) == IF key \in DOMAIN obj THEN obj[key] ELSE Undefined

\* ----------------------------------------------------------------- strings

CharAt(s, i) == SubSeq(s, i, i)

Digits == {"0", "1", "2", "3", "4", "5", "6", "7", "8", "9"}

Letters ==
  {"a", "b", "c", "d", "e", "f", "g", "h", "i", "j", "k", "l", "m",
   "n", "o", "p", "q", "r", "s", "t", "u", "v", "w", "x", "y", "z",
   "A", "B", "C", "D", "E", "F", "G", "H", "I", "J", "K", "L", "M",
   "N", "O", "P", "Q", "R", "S", "T", "U", "V", "W", "X", "Y", "Z"}

\* The regular expression class \w.
WordChars == Letters \cup Digits \cup {"_"}

\* The first position at or after i (1-based) where sub occurs in s; 0 when none.
RECURSIVE FirstOccurrence(_, _, _)
FirstOccurrence(s, sub, i) ==
  IF i + Len(sub) - 1 > Len(s) THEN 0
  ELSE IF SubSeq(s, i, i + Len(sub) - 1) = sub THEN i
  ELSE FirstOccurrence(s, sub, i + 1)

\* String.prototype.indexOf, 0-based, -1 when sub does not occur.
IndexOf(s, sub) == FirstOccurrence(s, sub, 1) - 1

DigitValue(c) ==
  CASE c = "0" -> 0 [] c = "1" -> 1 [] c = "2" -> 2 [] c = "3" -> 3 [] c = "4" -> 4
    [] c = "5" -> 5 [] c = "6" -> 6 [] c = "7" -> 7 [] c = "8" -> 8 [] c = "9" -> 9

\* The length of the longest run of digits of s that starts at position i (1-based).
RECURSIVE DigitRun(_, _)
DigitRun(s, i) ==
  IF i <= Len(s) /\ CharAt(s, i) \in Digits THEN 1 + DigitRun(s, i + 1) ELSE 0

\* The value of a string of decimal digits.
RECURSIVE DecimalValue(_)
DecimalValue(ds) ==
  IF ds = "" THEN 0
  ELSE 10 * DecimalValue(SubSeq(ds, 1, Len(ds) - 1)) + DigitValue(CharAt(ds, Len(ds)))

\* parseInt(s, 10): an optional sign and the leading digits; NaN without a digit.
\* (Leading white space, which parseInt skips, is not in the strings modelled.)
ParseInt(s) ==
  LET signed == Len(s) >= 1 /\ CharAt(s, 1) \in {"-", "+"}
      start  == IF signed THEN 2 ELSE 1
      n      == DigitRun(s, start)
      v      == DecimalValue(SubSeq(s, start, start + n - 1))
  IN  IF n = 0 THEN NaN
      ELSE IF signed /\ CharAt(s, 1) = "-" THEN 0 - v ELSE v

\* ------------------------------------------------------------ preset tables

spans ==
  [s |-> [display |-> "sekunda"],
   m |-> [display |-> "minuta"],
   h |-> [display |-> "chas"],
   d |-> [display |-> "den"],
   w |-> [display |-> "sedmitsa"],
   M |-> [display |-> "mesets"],
   y |-> [display |-> "godina"]]

rangeOptions ==
  <<
    [from |-> "now/d", to |-> "now/d", display |-> "Dnes"],
    [from |-> "now/d", to |-> "now", display |-> "Dosega dnes"],
    [from |-> "now/w", to |-> "now/w", display |-> "Tazi sedmitsa"],
    [from |-> "now/w", to |-> "now", display |-> "Dosega tazi sedmitsa"],
    [from |-> "now/M", to |-> "now/M", display |-> "Tozi mesets"],
    [from |-> "now/M", to |-> "now", display |-> "Dosega tozi mesets"],
    [from |-> "now/y", to |-> "now/y", display |-> "Tazi godina"],
    [from |-> "now/y", to |-> "now", display |-> "Dosega tazi godina"],
    [from |-> "now-1d/d", to |-> "now-1d/d", display |-> "Vchera"],
    [from |-> "now-2d/d", to |-> "now-2d/d", display |-> "Onzi den"],
    [from |-> "now-7d/d", to |-> "now-7d/d", display |-> "Tozi den predishnata sedmitsa"],
    [from |-> "now-1w/w", to |-> "now-1w/w", display |-> "Predishnata sedmitsa"],
    [from |-> "now-1M/M", to |-> "now-1M/M", display |-> "Predishniyat mesets"],
    [from |-> "now-1Q/fQ", to |-> "now-1Q/fQ", display |-> "Predishnata fiskalna chetvart"],
    [from |-> "now-1y/y", to |-> "now-1y/y", display |-> "Predishnata godina"],
    [from |-> "now-1y/fy", to |-> "now-1y/fy", display |-> "Predishnata fiskalna godina"],
    [from |-> "now-5m", to |-> "now", display |-> "Poslednite 5 minuti"],
    [from |-> "now-15m", to |-> "now", display |-> "Poslednite 15 minuti"],
    [from |-> "now-30m", to |-> "now", display |-> "Poslednite 30 minuti"],
    [from |-> "now-1h", to |-> "now", display |-> "Posledniyat chas"],
    [from |-> "now-3h", to |-> "now", display |-> "Poslednite 3 chasa"],
    [from |-> "now-6h", to |-> "now", display |-> "Poslednite 6 chasa"],
    [from |-> "now-12h", to |-> "now", display |-> "Poslednite 12 chasa"],
    [from |-> "now-24h", to |-> "now", display |-> "Poslednite 24 chasa"],
    [from |-> "now-2d", to |-> "now", display |-> "Poslednite 2 dni"],
    [from |-> "now-7d", to |-> "now", display |-> "Poslednite 7 dni"],
    [from |-> "now-30d", to |-> "now", display |-> "Poslednite 30 dni"],
    [from |-> "now-90d", to |-> "now", display |-> "Poslednite 90 dni"],
    [from |-> "now-6M", to |-> "now", display |-> "Poslednite 6 mesetsa"],
    [from |-> "now-1y", to |-> "now", display |-> "Poslednata godina"],
    [from |-> "now-2y", to |-> "now", display |-> "Poslednite 2 godini"],
    [from |-> "now-5y", to |-> "now", display |-> "Poslednite 5 godini"],
    [from |-> "now/fQ", to |-> "now", display |-> "Dosega tazi fiskalna chetvart"],
    [from |-> "now/fQ", to |-> "now/fQ", display |-> "Tazi fiskalna chetvart"],
    [from |-> "now/fy", to |-> "now", display |-> "Dosega tazi fiskalna godina"],
    [from |-> "now/fy", to |-> "now/fy", display |-> "Tazi fiskalna godina"]
  >>

hiddenRangeOptions ==
  <<
    [from |-> "now", to |-> "now+1m", display |-> "Sledvashtata minuta"],
    [from |-> "now", to |-> "now+5m", display |-> "Sledvashtite 5 minuti"],
    [from |-> "now", to |-> "now+15m", display |-> "Sledvashtite 15 minuti"],
    [from |-> "now", to |-> "now+30m", display |-> "Next 30 minutes"],
    [from |-> "now", to |-> "now+1h", display |-> "Sledvashtiyat chas"],
    [from |-> "now", to |-> "now+3h", display |-> "Sledvashtite 3 chasa"],
    [from |-> "now", to |-> "now+6h", display |-> "Sledvashtite 6 chasa"],
    [from |-> "now", to |-> "now+12h", display |-> "Sledvashtite 12 chasa"],
    [from |-> "now", to |-> "now+24h", display |-> "Sledvashtite 24 chasa"],
    [from |-> "now", to |-> "now+2d", display |-> "Sledvashtite 2 dni"],
    [from |-> "now", to |-> "now+7d", display |-> "Sledvashtite 7 dni"],
    [from |-> "now", to |-> "now+30d", display |-> "Sledvashtite 30 dni"],
    [from |-> "now", to |-> "now+90d", display |-> "Sledvashtite 90 dni"],
    [from |-> "now", to |-> "now+6M", display |-> "Sledvashtite 6 mesetsa"],
    [from |-> "now", to |-> "now+1y", display |-> "Sledvashtata godina"],
    [from |-> "now", to |-> "now+2y", display |-> "Sledvashtite 2 godini"],
    [from |-> "now", to |-> "now+5y", display |-> "Sledvashtite 5 godini"]
  >>

\* each(frames, frame => index[frame.from + ' to ' + frame.to] = frame), from
\* the i-th frame on: a later frame replaces an earlier one under the same key.
RECURSIVE IndexFrames(_, _, _)
IndexFrames(index, frames, i) ==
  IF i > Len(frames) THEN index
  ELSE LET frame == frames[i]
           key   == frame.from \o " to " \o frame.to
       IN  IndexFrames([k \in DOMAIN index \cup {key} |->
                          IF k = key THEN frame ELSE index[k]], frames, i + 1)

\* Mutant: the index built from the visible table only.
BuildRangeIndex_VisibleOnly == IndexFrames([k \in {} |-> Undefined], rangeOptions, 1)

\* The index as the module builds it when it is loaded.
BuildRangeIndex ==
  IndexFrames(IndexFrames([k \in {} |-> Undefined], rangeOptions, 1), hiddenRangeOptions, 1)

\* ------------------------------------------------------- expression describer

\* The result of a regular expression that does not match (null).
NoMatch == [matched |-> FALSE]

\* /^now([-+])(\d+)(\w)/.exec(expr): the groups, or NoMatch.
\* \d+ is greedy; when the character after the digits is not a word character
\* the match backtracks, giving up the last digit to \w.
NowRegexExec(expr) ==
  LET n == DigitRun(expr, 5)
  IN  IF ~(Len(expr) >= 6 /\ SubSeq(expr, 1, 3) = "now" /\ CharAt(expr, 4) \in {"-", "+"}
           /\ n >= 1)
      THEN NoMatch
      ELSE IF 5 + n <= Len(expr) /\ CharAt(expr, 5 + n) \in WordChars
      THEN [matched |-> TRUE, sign |-> CharAt(expr, 4), amount |-> SubSeq(expr, 5, 4 + n),
            unit |-> CharAt(expr, 5 + n)]
      ELSE IF n >= 2
      THEN [matched |-> TRUE, sign |-> CharAt(expr, 4), amount |-> SubSeq(expr, 5, 3 + n),
            unit |-> CharAt(expr, 4 + n)]
      ELSE NoMatch

\* Mutant: a "+" anywhere in the token, not only in front, makes it a forward range.
describeTextRange_PlusAnywhere(index, expr0) ==
  LET isLast == IndexOf(expr0, "+") = -1
      expr   == IF IndexOf(expr0, "now") = -1
                THEN (IF isLast THEN "now-" ELSE "now") \o expr0
                ELSE expr0
      key    == expr \o " to now"
      opt    == IF isLast THEN [from |-> expr, to |-> "now"]
                ELSE [from |-> "now", to |-> expr]
      parts  == NowRegexExec(expr)
  IN  IF key \in DOMAIN index THEN index[key]
      ELSE IF parts.matched
      THEN LET unit   == parts.unit
               amount == ParseInt(parts.amount)
           IN  IF unit \in DOMAIN spans
               THEN [from |-> opt.from, to |-> opt.to,
                     display |-> (IF isLast THEN "Last " ELSE "Next ")
                                 \o ToString(amount) \o " " \o spans[unit].display
                                 \o (IF amount > 1 THEN "s" ELSE ""),
                     section |-> Get(spans[unit], "section")]
               ELSE opt
      ELSE [from |-> opt.from, to |-> opt.to,
            display |-> opt.from \o " to " \o opt.to, invalid |-> TRUE]

\* Mutant: the plural suffix is added from amount 1 on.
describeTextRange_PluralFromOne(index, expr0) ==
  LET isLast == IndexOf(expr0, "+") # 0
      expr   == IF IndexOf(expr0, "now") = -1
                THEN (IF isLast THEN "now-" ELSE "now") \o expr0
                ELSE expr0
      key    == expr \o " to now"
      opt    == IF isLast THEN [from |-> expr, to |-> "now"]
                ELSE [from |-> "now", to |-> expr]
      parts  == NowRegexExec(expr)
  IN  IF key \in DOMAIN index THEN index[key]
      ELSE IF parts.matched
      THEN LET unit   == parts.unit
               amount == ParseInt(parts.amount)
           IN  IF unit \in DOMAIN spans
               THEN [from |-> opt.from, to |-> opt.to,
                     display |-> (IF isLast THEN "Last " ELSE "Next ")
                                 \o ToString(amount) \o " " \o spans[unit].display
                                 \o (IF amount > 0 THEN "s" ELSE ""),
                     section |-> Get(spans[unit], "section")]
               ELSE opt
      ELSE [from |-> opt.from, to |-> opt.to,
            display |-> opt.from \o " to " \o opt.to, invalid |-> TRUE]

describeTextRange(index, expr0) ==
  LET isLast == IndexOf(expr0, "+") # 0
      expr   == IF IndexOf(expr0, "now") = -1
                THEN (IF isLast THEN "now-" ELSE "now") \o expr0
                ELSE expr0
      key    == expr \o " to now"
      opt    == IF isLast THEN [from |-> expr, to |-> "now"]
                ELSE [from |-> "now", to |-> expr]
      parts  == NowRegexExec(expr)
  IN  IF key \in DOMAIN index THEN index[key]
      ELSE IF parts.matched
      THEN LET unit   == parts.unit
               amount == ParseInt(parts.amount)
           IN  IF unit \in DOMAIN spans
               THEN [from |-> opt.from, to |-> opt.to,
                     display |-> (IF isLast THEN "Last " ELSE "Next ")
                                 \o ToString(amount) \o " " \o spans[unit].display
                                 \o (IF amount > 1 THEN "s" ELSE ""),
                     section |-> Get(spans[unit], "section")]
               ELSE opt
      ELSE [from |-> opt.from, to |-> opt.to,
            display |-> opt.from \o " to " \o opt.to, invalid |-> TRUE]

\* ------------------------------------------------------------ raw range sides

\* A side of a RawTimeRange: a string or a DateTime (milliseconds since the epoch).
StringSide(s) == [type |-> "string", str |-> s]

DateTimeSide(ms) == [type |-> "DateTime", ms |-> ms]

isDateTime(v) == v.type = "DateTime"

\* DateTime.toString(): a calendar rendering of the instant; it names no preset.
DateTimeToString(ms) == "DateTime(" \o ToString(ms) \o ")"

SideToString(v) == IF isDateTime(v) THEN DateTimeToString(v.ms) ELSE v.str

\* The formatter's renderings of an instant.
dateTimeFormat(ms) == "format(" \o ToString(ms) \o ")"

dateTimeFormatTimeAgo(ms) == "timeAgo(" \o ToString(ms) \o ")"

\* dateMath.parse gives an instant or nothing; which one is the collaborator's
\* business, so the caller of describeTimeRange supplies the outcome.
NotParsed == [type |-> "undefined"]

describeTimeRange(index, range, parsed) ==
  LET key == SideToString(range.from) \o " to " \o SideToString(range.to)
  IN  IF key \in DOMAIN index THEN Get(index[key], "display")
      ELSE IF isDateTime(range.from) /\ isDateTime(range.to)
      THEN dateTimeFormat(range.from.ms) \o " to " \o dateTimeFormat(range.to.ms)
      ELSE IF isDateTime(range.from)
      THEN (IF isDateTime(parsed)
            THEN dateTimeFormat(range.from.ms) \o " to " \o dateTimeFormatTimeAgo(parsed.ms)
            ELSE "")
      ELSE IF isDateTime(range.to)
      THEN (IF isDateTime(parsed)
            THEN dateTimeFormatTimeAgo(parsed.ms) \o " to " \o dateTimeFormat(range.to.ms)
            ELSE "")
      ELSE IF SideToString(range.to) = "now"
      THEN Get(describeTextRange(index, range.from.str), "display")
      ELSE SideToString(range.from) \o " to " \o SideToString(range.to)

\* Mutant: only the "$" sigil bypasses the describer, "+$" does not.
isValidTimeSpan_DollarOnly(index, value) ==
  IF IndexOf(value, "$") = 0
  THEN TRUE
  ELSE LET info == describeTextRange(index, value)
       IN  ~("invalid" \in DOMAIN info /\ info.invalid = TRUE)

isValidTimeSpan(index, value) ==
  IF IndexOf(value, "$") = 0 \/ IndexOf(value, "+$") = 0
  THEN TRUE
  ELSE LET info == describeTextRange(index, value)
       IN  ~("invalid" \in DOMAIN info /\ info.invalid = TRUE)

\* --------------------------------------------------------- range normalizer

\* The relative expressions of the date-math collaborator: now, an optional
\* signed offset <integer><unit> and an optional rounding /<unit>, with the
\* fixed-length units s, m, h, d (calendar and fiscal units are not resolved
\* here).  The result names the sign, amount and unit of the offset and the
\* rounding unit, "" where the expression has none.
ParseRelative(str) ==
  LET signed == Len(str) >= 4 /\ CharAt(str, 4) \in {"-", "+"}
      n      == IF signed THEN DigitRun(str, 5) ELSE 0
      u      == 5 + n
      offset == signed /\ n >= 1 /\ u <= Len(str) /\ CharAt(str, u) \in {"s", "m", "h", "d"}
      r      == IF offset THEN u + 1 ELSE 4
      round  == r + 1 = Len(str) /\ CharAt(str, r) = "/"
                  /\ CharAt(str, r + 1) \in {"s", "m", "h", "d"}
  IN  IF Len(str) >= 3 /\ SubSeq(str, 1, 3) = "now" /\ (signed => offset)
         /\ (round \/ r = Len(str) + 1)
      THEN [matched |-> TRUE,
            sign    |-> IF offset THEN CharAt(str, 4) ELSE "+",
            amount  |-> IF offset THEN DecimalValue(SubSeq(str, 5, u - 1)) ELSE 0,
            unit    |-> IF offset THEN CharAt(str, u) ELSE "s",
            round   |-> IF round THEN CharAt(str, r + 1) ELSE ""]
      ELSE NoMatch

\* The length of a unit in milliseconds.
UnitLengthMs(unit) ==
  CASE unit = "s" -> 1000 [] unit = "m" -> 60000 [] unit = "h" -> 3600000
    [] unit = "d" -> 86400000

\* dateMath.parse(expr, roundUp) against the clock reading now: the offset is
\* applied, then the instant is taken to the start of the rounding unit, or to
\* its last millisecond when roundUp is set; nothing for any other string.
dateMathParse(str, roundUp, now) ==
  The({IF ~parts.matched THEN NotParsed
       ELSE The({IF parts.round = "" THEN DateTimeSide(moved)
                 ELSE The({DateTimeSide(IF roundUp THEN start + UnitLengthMs(parts.round) - 1
                                        ELSE start) :
                           start \in {moved - (moved % UnitLengthMs(parts.round))}}) :
                 moved \in {IF parts.sign = "-"
                            THEN now - parts.amount * UnitLengthMs(parts.unit)
                            ELSE now + parts.amount * UnitLengthMs(parts.unit)}}) :
       parts \in {ParseRelative(str)}})

\* dateTimeParse(value, {roundUp}): an instant is taken as it is, a string is
\* resolved by the date-math collaborator.
dateTimeParse(value, roundUp, now) ==
  IF isDateTime(value) THEN DateTimeSide(value.ms) ELSE dateMathParse(value.str, roundUp, now)

\* dateMath.isMathString: the side is a string that is a relative expression.
isMathString(value) ==
  ~isDateTime(value) /\ Len(value.str) >= 3 /\ SubSeq(value.str, 1, 3) = "now"

\* Mutant: the rounding directions of the two sides exchanged.
convertRawToRange_RoundingExchanged(raw, now) ==
  The({IF isMathString(raw.from) \/ isMathString(raw.to)
       THEN [from |-> from, to |-> to, raw |-> raw]
       ELSE [from |-> from, to |-> to, raw |-> [from |-> from, to |-> to]] :
       from \in {dateTimeParse(raw.from, TRUE, now)},
       to \in {dateTimeParse(raw.to, FALSE, now)}})

\* Mutant: raw is kept only when the from side is a relative expression.
convertRawToRange_FromSideOnly(raw, now) ==
  The({IF isMathString(raw.from)
       THEN [from |-> from, to |-> to, raw |-> raw]
       ELSE [from |-> from, to |-> to, raw |-> [from |-> from, to |-> to]] :
       from \in {dateTimeParse(raw.from, FALSE, now)},
       to \in {dateTimeParse(raw.to, TRUE, now)}})

\* now is the reading of the clock the collaborator resolves against.
convertRawToRange(raw, now) ==
  The({IF isMathString(raw.from) \/ isMathString(raw.to)
       THEN [from |-> from, to |-> to, raw |-> raw]
       ELSE [from |-> from, to |-> to, raw |-> [from |-> from, to |-> to]] :
       from \in {dateTimeParse(raw.from, FALSE, now)},
       to \in {dateTimeParse(raw.to, TRUE, now)}})

\* ------------------------------------------------------------ wide numbers

\* The source computes in double precision, exact for every integer met here.
\* A count of milliseconds v, which can exceed the 32-bit integers of TLC,
\* is kept as quotient and remainder by 1000: v = 1000 * s + ms, ms in 0..999.
Ms(v) == [s |-> v \div 1000, ms |-> v % 1000]

Seconds(n) == [s |-> n, ms |-> 0]

MsLess(a, b) == a.s < b.s \/ (a.s = b.s /\ a.ms < b.ms)

MsMinus(a, b) ==
  [s |-> a.s - b.s + ((a.ms - b.ms) \div 1000), ms |-> (a.ms - b.ms) % 1000]

MsPlus(a, b) ==
  [s |-> a.s + b.s + ((a.ms + b.ms) \div 1000), ms |-> (a.ms + b.ms) % 1000]

MsTimes(a, k) == [s |-> a.s * k + ((a.ms * k) \div 1000), ms |-> (a.ms * k) % 1000]

\* A quotient a / d of a millisecond count by a positive integer, kept exact.
Quotient(a, d) == [num |-> a, den |-> d]

\* Mutant: interval <= k, the comparison off by one.
Below_OrEqual(interval, k) == ~MsLess(MsTimes(k, interval.den), interval.num)

\* interval < k for a quotient and an integer threshold k (a wide number).
Below(interval, k) == MsLess(interval.num, MsTimes(k, interval.den))

\* --------------------------------------------------------- interval parser

\* Number(str) for decimal numerals: an optional sign, digits and an optional
\* fraction; every other string of the inputs is NaN.  (White space, exponents,
\* radix prefixes and Infinity do not occur in the strings modelled.)
IsDecimalNumeral(str) ==
  LET start == IF Len(str) >= 1 /\ CharAt(str, 1) \in {"-", "+"} THEN 2 ELSE 1
      n1    == DigitRun(str, start)
      dot   == start + n1 <= Len(str) /\ CharAt(str, start + n1) = "."
      n2    == IF dot THEN DigitRun(str, start + n1 + 1) ELSE 0
      end   == start + n1 + (IF dot THEN 1 + n2 ELSE 0)
  IN  n1 + n2 >= 1 /\ end = Len(str) + 1

\* if (Number(str)): the string is a numeral other than zero ("" converts to 0).
NumberIsTruthy(str) ==
  /\ IsDecimalNumeral(str)
  /\ \E i \in 1..Len(str) : CharAt(str, i) \in Digits \ {"0"}

\* Mutant: the single letters are tried before "ms": /(-?\d+(?:\.\d+)?)([Mwdhmsy]|ms)/
IntervalRegexAt_SingleLetterFirst(str, i) ==
  LET j    == IF CharAt(str, i) = "-" THEN i + 1 ELSE i
      n    == DigitRun(str, j)
      k    == j + n
      frac == IF k <= Len(str) /\ CharAt(str, k) = "." THEN DigitRun(str, k + 1) ELSE 0
      u    == IF frac >= 1 THEN k + 1 + frac ELSE k
      unit == IF u <= Len(str) /\ CharAt(str, u) \in {"M", "w", "d", "h", "m", "s", "y"}
              THEN CharAt(str, u)
              ELSE ""
  IN  IF n >= 1 /\ unit # ""
      THEN [matched |-> TRUE, number |-> SubSeq(str, i, u - 1), unit |-> unit]
      ELSE NoMatch

\* interval_regex matched at position i: /(-?\d+(?:\.\d+)?)(ms|[Mwdhmsy])/
IntervalRegexAt(str, i) ==
  LET j    == IF CharAt(str, i) = "-" THEN i + 1 ELSE i
      n    == DigitRun(str, j)
      k    == j + n
      frac == IF k <= Len(str) /\ CharAt(str, k) = "." THEN DigitRun(str, k + 1) ELSE 0
      u    == IF frac >= 1 THEN k + 1 + frac ELSE k
      unit == IF u + 1 <= Len(str) /\ SubSeq(str, u, u + 1) = "ms" THEN "ms"
              ELSE IF u <= Len(str) /\ CharAt(str, u) \in {"M", "w", "d", "h", "m", "s", "y"}
              THEN CharAt(str, u)
              ELSE ""
  IN  IF n >= 1 /\ unit # ""
      THEN [matched |-> TRUE, number |-> SubSeq(str, i, u - 1), unit |-> unit]
      ELSE NoMatch

\* The match at the first position at or after i where the pattern matches.
RECURSIVE IntervalRegexFrom(_, _)
IntervalRegexFrom(str, i) ==
  IF i > Len(str) THEN NoMatch
  ELSE IF IntervalRegexAt(str, i).matched THEN IntervalRegexAt(str, i)
  ELSE IntervalRegexFrom(str, i + 1)

\* str.match(interval_regex): the leftmost match; the pattern is not anchored.
IntervalRegexMatch(str) == IntervalRegexFrom(str, 1)

\* Seconds per unit, each a fraction num / den of a second.
intervals_in_seconds ==
  [y  |-> [num |-> 31536000, den |-> 1],
   M  |-> [num |-> 2592000, den |-> 1],
   w  |-> [num |-> 604800, den |-> 1],
   d  |-> [num |-> 86400, den |-> 1],
   h  |-> [num |-> 3600, den |-> 1],
   m  |-> [num |-> 60, den |-> 1],
   s  |-> [num |-> 1, den |-> 1],
   ms |-> [num |-> 1, den |-> 1000]]

InvalidIntervalError ==
  "Invalid interval string, has to be either unit-less or end with one of the following units: "
    \o "\"y, M, w, d, h, m, s, ms\""

describeInterval(str) ==
  IF NumberIsTruthy(str)
  THEN Return([sec |-> intervals_in_seconds.s, type |-> "s", count |-> ParseInt(str)])
  ELSE LET matches == IntervalRegexMatch(str)
       IN  IF ~matches.matched \/ matches.unit \notin DOMAIN intervals_in_seconds
           THEN Throw(InvalidIntervalError)
           ELSE Return([sec |-> intervals_in_seconds[matches.unit], type |-> matches.unit,
                        count |-> ParseInt(matches.number)])

\* info.sec * info.count, a fraction of a second.
intervalToSeconds(str) ==
  The({IF info.kind = "throw" THEN info
       ELSE Return([num |-> info.value.sec.num * info.value.count, den |-> info.value.sec.den]) :
       info \in {describeInterval(str)}})

\* One unit of sec seconds, in milliseconds: sec * 1000.
UnitMs(sec) == IF sec.den = 1 THEN Seconds(sec.num) ELSE Ms((sec.num * 1000) \div sec.den)

\* Mutant: the factor 1000 is left out, the result is in seconds.
intervalToMs_NotTimes1000(str) ==
  The({IF info.kind = "throw" THEN info
       ELSE Return(Ms((info.value.sec.num * info.value.count) \div info.value.sec.den)) :
       info \in {describeInterval(str)}})

\* info.sec * 1000 * info.count, in milliseconds.
intervalToMs(str) ==
  The({IF info.kind = "throw" THEN info
       ELSE Return(MsTimes(UnitMs(info.value.sec), info.value.count)) :
       info \in {describeInterval(str)}})

\* ------------------------------------------------------ interval calculator

RoundIntervalOf(interval) ==
  IF Below(interval, Ms(10)) THEN Ms(1)
  ELSE IF Below(interval, Ms(15)) THEN Ms(10)
  ELSE IF Below(interval, Ms(35)) THEN Ms(20)
  ELSE IF Below(interval, Ms(75)) THEN Ms(50)
  ELSE IF Below(interval, Ms(150)) THEN Ms(100)
  ELSE IF Below(interval, Ms(350)) THEN Ms(200)
  ELSE IF Below(interval, Ms(750)) THEN Ms(500)
  ELSE IF Below(interval, Ms(1500)) THEN Ms(1000)
  ELSE IF Below(interval, Ms(3500)) THEN Ms(2000)
  ELSE IF Below(interval, Ms(7500)) THEN Ms(5000)
  ELSE IF Below(interval, Ms(12500)) THEN Ms(10000)
  ELSE IF Below(interval, Ms(17500)) THEN Ms(15000)
  ELSE IF Below(interval, Ms(25000)) THEN Ms(20000)
  ELSE IF Below(interval, Ms(45000)) THEN Ms(30000)
  ELSE IF Below(interval, Ms(90000)) THEN Ms(60000)
  ELSE IF Below(interval, Ms(210000)) THEN Ms(120000)
  ELSE IF Below(interval, Ms(450000)) THEN Ms(300000)
  ELSE IF Below(interval, Ms(750000)) THEN Ms(600000)
  ELSE IF Below(interval, Ms(1050000)) THEN Ms(900000)
  ELSE IF Below(interval, Ms(1500000)) THEN Ms(1200000)
  ELSE IF Below(interval, Ms(2700000)) THEN Ms(1800000)
  ELSE IF Below(interval, Ms(5400000)) THEN Ms(3600000)
  ELSE IF Below(interval, Ms(9000000)) THEN Ms(7200000)
  ELSE IF Below(interval, Ms(16200000)) THEN Ms(10800000)
  ELSE IF Below(interval, Ms(32400000)) THEN Ms(21600000)
  ELSE IF Below(interval, Ms(86400000)) THEN Ms(43200000)
  ELSE IF Below(interval, Ms(604800000)) THEN Ms(86400000)
  ELSE IF Below(interval, Ms(1814400000)) THEN Ms(604800000)
  ELSE IF Below(interval, Seconds(3628800)) THEN Seconds(2592000)
  ELSE Seconds(31536000)

\* Mutant: the threshold of one day is inclusive (interval <= 86400000).
roundInterval_DayInclusive(interval) ==
  The({IF ~Below(i, Ms(86400000)) /\ Below_OrEqual(i, Ms(86400000)) THEN Ms(43200000)
       ELSE RoundIntervalOf(i) : i \in {interval}})

\* Mutant: the rungs 20 ms and 50 ms returned for each other's band.
roundInterval_RungsExchanged(interval) ==
  The({IF r = Ms(20) THEN Ms(50) ELSE IF r = Ms(50) THEN Ms(20) ELSE r :
       r \in {RoundIntervalOf(interval)}})

\* Mutant: the band below 17.5 s returns the 10 s rung again, not 15 s.
roundInterval_QuarterMinuteSlip(interval) ==
  The({IF r = Ms(15000) THEN Ms(10000) ELSE r : r \in {RoundIntervalOf(interval)}})

roundInterval(interval) == The({RoundIntervalOf(i) : i \in {interval}})

\* Mutant: whole weeks are reported before days.
secondsToHms_WithWeeks(intervalMs) ==
  LET seconds    == intervalMs.s
      numYears   == seconds \div 31536000
      numWeeks   == (seconds % 31536000) \div 604800
      numDays    == (seconds % 31536000) \div 86400
      numHours   == ((seconds % 31536000) % 86400) \div 3600
      numMinutes == (((seconds % 31536000) % 86400) % 3600) \div 60
      numSeconds == (((seconds % 31536000) % 86400) % 3600) % 60
      numMilliseconds == seconds * 1000 + intervalMs.ms
  IN  IF numYears # 0 THEN ToString(numYears) \o "y"
      ELSE IF numWeeks # 0 THEN ToString(numWeeks) \o "w"
      ELSE IF numDays # 0 THEN ToString(numDays) \o "d"
      ELSE IF numHours # 0 THEN ToString(numHours) \o "h"
      ELSE IF numMinutes # 0 THEN ToString(numMinutes) \o "m"
      ELSE IF numSeconds # 0 THEN ToString(numSeconds) \o "s"
      ELSE IF numMilliseconds # 0 THEN ToString(numMilliseconds) \o "ms"
      ELSE "less than a millisecond"

\* secondsToHms(intervalMs / 1000) for a millisecond count that is not negative.
secondsToHms(intervalMs) ==
  LET seconds    == intervalMs.s
      numYears   == seconds \div 31536000
      numDays    == (seconds % 31536000) \div 86400
      numHours   == ((seconds % 31536000) % 86400) \div 3600
      numMinutes == (((seconds % 31536000) % 86400) % 3600) \div 60
      numSeconds == (((seconds % 31536000) % 86400) % 3600) % 60
      numMilliseconds == seconds * 1000 + intervalMs.ms
  IN  IF numYears # 0 THEN ToString(numYears) \o "y"
      ELSE IF numDays # 0 THEN ToString(numDays) \o "d"
      ELSE IF numHours # 0 THEN ToString(numHours) \o "h"
      ELSE IF numMinutes # 0 THEN ToString(numMinutes) \o "m"
      ELSE IF numSeconds # 0 THEN ToString(numSeconds) \o "s"
      ELSE IF numMilliseconds # 0 THEN ToString(numMilliseconds) \o "ms"
      ELSE "less than a millisecond"

\* Mutant: the lower bound replaces the rounded value when it is smaller.
calculateInterval_BoundWhenSmaller(range, resolution, lowLimitInterval) ==
  The({IF lowLimitMs.kind = "throw" THEN lowLimitMs
       ELSE The({Return([intervalMs |-> intervalMs, interval |-> secondsToHms(intervalMs)]) :
                 intervalMs \in {IF MsLess(lowLimitMs.value, rounded)
                                 THEN lowLimitMs.value ELSE rounded}}) :
       lowLimitMs \in {IF lowLimitInterval # Undefined /\ lowLimitInterval # ""
                       THEN intervalToMs(lowLimitInterval)
                       ELSE Return(Ms(1))},
       rounded \in {roundInterval(Quotient(MsMinus(range.to, range.from), resolution))}})

\* Mutant: the span is rounded as it is, not divided by the resolution.
calculateInterval_SpanNotDivided(range, resolution, lowLimitInterval) ==
  The({IF lowLimitMs.kind = "throw" THEN lowLimitMs
       ELSE The({Return([intervalMs |-> intervalMs, interval |-> secondsToHms(intervalMs)]) :
                 intervalMs \in {IF MsLess(rounded, lowLimitMs.value)
                                 THEN lowLimitMs.value ELSE rounded}}) :
       lowLimitMs \in {IF lowLimitInterval # Undefined /\ lowLimitInterval # ""
                       THEN intervalToMs(lowLimitInterval)
                       ELSE Return(Ms(1))},
       rounded \in {roundInterval(Quotient(MsMinus(range.to, range.from), 1))}})

\* range.from and range.to are the instants' valueOf(), wide numbers;
\* lowLimitInterval is a string, or Undefined when the caller leaves it out.
calculateInterval(range, resolution, lowLimitInterval) ==
  The({IF lowLimitMs.kind = "throw" THEN lowLimitMs
       ELSE The({Return([intervalMs |-> intervalMs, interval |-> secondsToHms(intervalMs)]) :
                 intervalMs \in {IF MsLess(rounded, lowLimitMs.value)
                                 THEN lowLimitMs.value ELSE rounded}}) :
       lowLimitMs \in {IF lowLimitInterval # Undefined /\ lowLimitInterval # ""
                       THEN intervalToMs(lowLimitInterval)
                       ELSE Return(Ms(1))},
       rounded \in {roundInterval(Quotient(MsMinus(range.to, range.from), resolution))}})

\* ---------------------------------------------- relative/absolute converter

\* DateTime.unix(): the whole seconds of an instant given in milliseconds.
Unix(t) == t \div 1000

\* Mutant: the subtraction starts from the whole second of the instant.
SubtractSeconds_FromWholeSecond(t, n) == 1000 * (t \div 1000) - 1000 * n

\* dateTime(t).subtract(n, 's')
SubtractSeconds(t, n) == t - 1000 * n

\* Mutant: to is computed from timeRange.from, as from is.
timeRangeToRelative_ToFromFrom(timeRange, now) ==
  [from |-> Unix(now) - Unix(timeRange.from), to |-> Unix(now) - Unix(timeRange.from)]

\* Mutant: the offsets taken with the operands exchanged.
timeRangeToRelative_Exchanged(timeRange, now) ==
  [from |-> Unix(timeRange.from) - Unix(now), to |-> Unix(timeRange.to) - Unix(now)]

timeRangeToRelative(timeRange, now) ==
  [from |-> Unix(now) - Unix(timeRange.from), to |-> Unix(now) - Unix(timeRange.to)]

\* DateTime objects are mutable: subtract changes its receiver.  A heap maps
\* the objects of a call to their instants; a reference is an object's name.

\* dateTime(x): a new object holding the instant of x.
dateTime(heap, src, fresh) ==
  [ref  |-> fresh,
   heap |-> [c \in DOMAIN heap \cup {fresh} |-> IF c = fresh THEN heap[src] ELSE heap[c]]]

\* x.subtract(n, 's'): the receiver is moved back by n seconds.
subtract(heap, ref, n) == [heap EXCEPT ![ref] = SubtractSeconds(@, n)]

\* Mutant: subtract is applied to now itself, not to a copy of it.
relativeToTimeRangeObjects_NoCopy(relativeTimeRange, now) ==
  The({[from |-> "now", to |-> "now",
        heap |-> IF relativeTimeRange.to = 0 THEN h1
                 ELSE subtract(h1, "now", relativeTimeRange.to)] :
       h1 \in {subtract([c \in {"now"} |-> now], "now", relativeTimeRange.from)}})

\* The objects at the end of relativeToTimeRange: the caller's now and the two
\* objects from and to refer to.
relativeToTimeRangeObjects(relativeTimeRange, now) ==
  The({The({The({[from |-> c1.ref, to |-> c2.ref,
                  heap |-> IF relativeTimeRange.to = 0 THEN c2.heap
                           ELSE subtract(c2.heap, c2.ref, relativeTimeRange.to)] :
                 c2 \in {dateTime(h1, "now", "to")}}) :
            h1 \in {subtract(c1.heap, c1.ref, relativeTimeRange.from)}}) :
       c1 \in {dateTime([c \in {"now"} |-> now], "now", "from")}})

relativeToTimeRange(relativeTimeRange, now) ==
  The({[from |-> objs.heap[objs.from], to |-> objs.heap[objs.to],
        raw |-> [from |-> objs.heap[objs.from], to |-> objs.heap[objs.to]]] :
       objs \in {relativeToTimeRangeObjects(relativeTimeRange, now)}})

\* ------------------------------------------------------------------- inputs

\* The largest amount written into a generated expression.
MaxAmount == 5

\* The largest instant (in seconds) given as a DateTime side.
MaxDateTimeSec == 1

ExprHeads == {"", "+", "now-", "now+", "now/", "now", "$", "+$", "not-a-valid-expr"}

ExprAmounts == {ToString(n) : n \in 0..MaxAmount} \cup {"", "05", "15"}

ExprUnits == {"", "s", "m", "h", "d", "w", "M", "y", "x", "_"}

ExprTails == {"", "/d", "!!"}

Presets == rangeOptions \o hiddenRangeOptions

PresetSides == {Presets[i].from : i \in DOMAIN Presets} \cup {Presets[i].to : i \in DOMAIN Presets}

\* The bare form of a preset side: "5m" of "now-5m", "+5m" of "now+5m".
BareForm(side) ==
  IF Len(side) > 4 /\ SubSeq(side, 1, 4) = "now-" THEN SubSeq(side, 5, Len(side))
  ELSE IF Len(side) > 4 /\ SubSeq(side, 1, 4) = "now+" THEN SubSeq(side, 4, Len(side))
  ELSE side

Exprs ==
  {h \o a \o u \o t : h \in ExprHeads, a \in ExprAmounts, u \in ExprUnits, t \in ExprTails}
    \cup PresetSides \cup {BareForm(side) : side \in PresetSides}

DateTimes == {DateTimeSide(500 * k) : k \in 0..(2 * MaxDateTimeSec)}

RawRanges ==
  {[from |-> StringSide(f), to |-> StringSide("now")] : f \in Exprs}
    \cup {[from |-> StringSide(f), to |-> StringSide(t)] : f \in PresetSides, t \in PresetSides}
    \cup {[from |-> StringSide(f), to |-> StringSide(t)] :
            f \in {"now-5x", "5m", ""}, t \in {"now-5x", "5m", "", "now "}}
    \cup {[from |-> f, to |-> t] :
            f \in DateTimes, t \in DateTimes \cup {StringSide("now"), StringSide("x")}}
    \cup {[from |-> f, to |-> t] :
            f \in {StringSide("now-1h"), StringSide("x")}, t \in DateTimes}

\* The largest count written into a generated interval string.
MaxCount == 3

IntervalLeads == {"", "x", "-"}

IntervalNumbers == {ToString(n) : n \in 0..MaxCount} \cup {"", "00", "07", "1.5", "0.5"}

IntervalUnits == {"", "ms", "M", "w", "d", "h", "m", "s", "y", "x", "min"}

IntervalTails == {"", "x"}

IntervalStrings ==
  {l \o n \o u \o t :
     l \in IntervalLeads, n \in IntervalNumbers, u \in IntervalUnits, t \in IntervalTails}

\* The largest resolution (number of steps wanted across a range).
MaxResolution == 3

\* Small millisecond counts are given from -2 up to this one.
MaxSmallMs == 16

\* The values at which the result of roundInterval changes.
Boundaries ==
  {Ms(10), Ms(15), Ms(35), Ms(75), Ms(150), Ms(350), Ms(750), Ms(1500), Ms(3500),
   Ms(7500), Ms(12500), Ms(17500), Ms(25000), Ms(45000), Ms(90000), Ms(210000),
   Ms(450000), Ms(750000), Ms(1050000), Ms(1500000), Ms(2700000), Ms(5400000),
   Ms(9000000), Ms(16200000), Ms(32400000), Ms(86400000), Ms(604800000),
   Ms(1814400000), Seconds(3628800)}

\* The values halfway between the rungs 12 h, 1 d, 1 w, 30 d and 1 y.
Halfway == {Ms(64800000), Ms(345600000), Ms(1598400000), Seconds(17064000)}

\* Millisecond counts around every boundary and every halfway value, for every
\* resolution dividing them.
Spans ==
  {MsPlus(MsTimes(b, r), Ms(e)) : b \in Boundaries, r \in 1..MaxResolution, e \in {-1, 0}}
    \cup {Ms(v) : v \in -2..MaxSmallMs}
    \cup {Ms(14999), Ms(15000), Ms(3600000), Seconds(40000000)}
    \cup {MsPlus(MsTimes(t, r), Ms(e)) : t \in Halfway, r \in 1..MaxResolution, e \in {-1, 0, 1}}

RangeStarts == {Ms(0), Ms(1500)}

Ranges == {[from |-> from, to |-> MsPlus(from, span)] : from \in RangeStarts, span \in Spans}

Intervals == {Quotient(n, d) : n \in Spans, d \in 1..MaxResolution}

LowLimits == {Undefined, "", "15ms", "90s", "25h", "1.5s", "-5s", "0", "5x", "1M", "1y"}

\* The largest whole second of an instant given to the converter.
MaxInstantSec == 2

\* Relative offsets run from -MaxRelative to MaxRelative seconds.
MaxRelative == 2

Instants == {1000 * sec + m : sec \in 0..MaxInstantSec, m \in {0, 1, 500, 999}}

\* The largest amount written into an offset given to convertRawToRange.
MaxConvertAmount == 1

ConvertOffsets ==
  {""} \cup {sign \o ToString(n) \o u :
               sign \in {"-", "+"}, n \in 0..MaxConvertAmount, u \in {"m", "d"}}

ConvertSides ==
  {StringSide("now" \o o \o r) : o \in ConvertOffsets, r \in {"", "/h", "/d"}}
    \cup {StringSide("x")} \cup DateTimes

\* Clock readings: the epoch, and instants inside their second, hour and day.
ConvertNows == {0, 86399999, 90061001}

ConvertRaws == {[from |-> f, to |-> t] : f \in ConvertSides, t \in ConvertSides}

\* The number of callers that use the describer at the same time.
NumCallers == 2

Callers == 1..NumCallers

\* A caller outside any call.
IdleCaller == [pc |-> "idle"]

\* What the concurrent callers pass: tokens that hit a preset, decompose, have
\* an unknown unit or are invalid, and raw ranges for every branch.
CallerExprs == {"5m", "+5m", "7h", "now-5x", "bad!!"}

CallerValues == {"$x", "7h", "bad!!"}

CallerRanges ==
  {[range |-> [from |-> StringSide("now-5m"), to |-> StringSide("now")], parsed |-> NotParsed],
   [range |-> [from |-> StringSide("7h"), to |-> StringSide("now")], parsed |-> NotParsed],
   [range |-> [from |-> StringSide("now-5x"), to |-> StringSide("now")], parsed |-> NotParsed],
   [range |-> [from |-> DateTimeSide(0), to |-> DateTimeSide(500)], parsed |-> NotParsed],
   [range |-> [from |-> DateTimeSide(0), to |-> StringSide("now")], parsed |-> DateTimeSide(500)],
   [range |-> [from |-> StringSide("a"), to |-> StringSide("b")], parsed |-> NotParsed]}

\* The quantization ladder as the specification lists it.
Ladder ==
  {Ms(v) : v \in {1, 10, 20, 50, 100, 200, 500}}
    \cup {Seconds(n) : n \in {1, 2, 5, 10, 15, 20, 30, 60, 120, 300, 600, 900, 1200, 1800}}
    \cup {Seconds(n) : n \in {3600, 7200, 10800, 21600, 43200, 86400, 604800, 2592000, 31536000}}

\* Millisecond counts, none negative, whose label secondsToHms is asked for:
\* the rungs, the counts around the thresholds and counts with several
\* components that are not zero.
HmsInputs ==
  Ladder \cup {n \in Spans : n.s >= 0}
    \cup {Ms(999), Ms(1000), Ms(59999), Ms(90061001), Ms(86399999),
          MsPlus(Seconds(31536000 + 86400), Ms(1)), MsMinus(Seconds(31536000), Ms(1)),
          Seconds(2 * 31536000 + 7)}

\* ------------------------------------------------------------------ actions

Init ==
  /\ op = "idle"
  /\ arg = <<>>
  /\ result = Return(Undefined)
  /\ rangeIndex = BuildRangeIndex
  /\ callers = [c \in Callers |-> IdleCaller]
  /\ data_source = {}
  /\ nextID = 1

DescribeTextRangeCall ==
  /\ op = "idle"
  /\ \E expr \in Exprs :
    /\ op' = "describeTextRange"
    /\ arg' = <<expr>>
    /\ result' = Return(describeTextRange(rangeIndex, expr))
    /\ UNCHANGED <<rangeIndex, callers, data_source, nextID>>

DescribeTimeRangeCall ==
  /\ op = "idle"
  /\ \E range \in RawRanges, parsed \in DateTimes \cup {NotParsed} :
    \* parse is consulted only when exactly one side is a DateTime
    /\ (isDateTime(range.from) = isDateTime(range.to)) => parsed = NotParsed
    /\ op' = "describeTimeRange"
    /\ arg' = <<range, parsed>>
    /\ result' = Return(describeTimeRange(rangeIndex, range, parsed))
    /\ UNCHANGED <<rangeIndex, callers, data_source, nextID>>

IsValidTimeSpanCall ==
  /\ op = "idle"
  /\ \E value \in Exprs :
    /\ op' = "isValidTimeSpan"
    /\ arg' = <<value>>
    /\ result' = Return(isValidTimeSpan(rangeIndex, value))
    /\ UNCHANGED <<rangeIndex, callers, data_source, nextID>>

DescribeIntervalCall ==
  /\ op = "idle"
  /\ \E str \in IntervalStrings :
    /\ op' = "describeInterval"
    /\ arg' = <<str>>
    /\ result' = describeInterval(str)
    /\ UNCHANGED <<rangeIndex, callers, data_source, nextID>>

IntervalToSecondsCall ==
  /\ op = "idle"
  /\ \E str \in IntervalStrings :
    /\ op' = "intervalToSeconds"
    /\ arg' = <<str>>
    /\ result' = intervalToSeconds(str)
    /\ UNCHANGED <<rangeIndex, callers, data_source, nextID>>

IntervalToMsCall ==
  /\ op = "idle"
  /\ \E str \in IntervalStrings :
    /\ op' = "intervalToMs"
    /\ arg' = <<str>>
    /\ result' = intervalToMs(str)
    /\ UNCHANGED <<rangeIndex, callers, data_source, nextID>>

RoundIntervalCall ==
  /\ op = "idle"
  /\ \E interval \in Intervals :
    /\ op' = "roundInterval"
    /\ arg' = <<interval>>
    /\ result' = Return(roundInterval(interval))
    /\ UNCHANGED <<rangeIndex, callers, data_source, nextID>>

CalculateIntervalCall ==
  /\ op = "idle"
  /\ \E range \in Ranges, resolution \in 1..MaxResolution, lowLimitInterval \in LowLimits :
    /\ op' = "calculateInterval"
    /\ arg' = <<range, resolution, lowLimitInterval>>
    /\ result' = calculateInterval(range, resolution, lowLimitInterval)
    /\ UNCHANGED <<rangeIndex, callers, data_source, nextID>>

TimeRangeToRelativeCall ==
  /\ op = "idle"
  /\ \E from \in Instants, to \in Instants, now \in Instants :
    /\ op' = "timeRangeToRelative"
    /\ arg' = <<[from |-> from, to |-> to], now>>
    /\ result' = Return(timeRangeToRelative([from |-> from, to |-> to], now))
    /\ UNCHANGED <<rangeIndex, callers, data_source, nextID>>

RelativeToTimeRangeCall ==
  /\ op = "idle"
  /\ \E from \in -MaxRelative..MaxRelative, to \in -MaxRelative..MaxRelative,
        now \in Instants :
    /\ op' = "relativeToTimeRange"
    \* the arguments, and the instant the caller's now holds after the call
    /\ arg' = <<[from |-> from, to |-> to], now,
                relativeToTimeRangeObjects([from |-> from, to |-> to], now).heap["now"]>>
    /\ result' = Return(relativeToTimeRange([from |-> from, to |-> to], now))
    /\ UNCHANGED <<rangeIndex, callers, data_source, nextID>>

\* secondsToHms(intervalMs / 1000)
SecondsToHmsCall ==
  /\ op = "idle"
  /\ \E intervalMs \in HmsInputs :
    /\ op' = "secondsToHms"
    /\ arg' = <<intervalMs>>
    /\ result' = Return(secondsToHms(intervalMs))
    /\ UNCHANGED <<rangeIndex, callers, data_source, nextID>>

ConvertRawToRangeCall ==
  /\ op = "idle"
  /\ \E raw \in ConvertRaws, now \in ConvertNows :
    /\ op' = "convertRawToRange"
    /\ arg' = <<raw, now>>
    /\ result' = Return(convertRawToRange(raw, now))
    /\ UNCHANGED <<rangeIndex, callers, data_source, nextID>>

\* The caller takes the outcome; the module is ready for the next call.
Complete ==
  /\ op # "idle"
  /\ op' = "idle"
  /\ arg' = <<>>
  /\ result' = Return(Undefined)
  /\ UNCHANGED <<rangeIndex, callers, data_source, nextID>>

Next ==
  \/ DescribeTextRangeCall
  \/ DescribeTimeRangeCall
  \/ IsValidTimeSpanCall
  \/ DescribeIntervalCall
  \/ IntervalToSecondsCall
  \/ IntervalToMsCall
  \/ RoundIntervalCall
  \/ CalculateIntervalCall
  \/ TimeRangeToRelativeCall
  \/ RelativeToTimeRangeCall
  \/ ConvertRawToRangeCall
  \/ SecondsToHmsCall
  \/ Complete

Spec == Init /\ [][Next]_vars

\* ------------------------------------------------------- concurrent callers

\* The describer's three functions, run by several callers whose steps
\* interleave.  Every step reads or writes the caller's own locals; the steps
\* that touch the shared index are the two lookups.

\* Lines 120-136 of describeTextRange: the option after the decomposition.
DecomposeOpt(opt, expr, isLast) ==
  The({IF ~parts.matched
       THEN [from |-> opt.from, to |-> opt.to,
             display |-> opt.from \o " to " \o opt.to, invalid |-> TRUE]
       ELSE IF parts.unit \notin DOMAIN spans THEN opt
       ELSE [from |-> opt.from, to |-> opt.to,
             display |-> (IF isLast THEN "Last " ELSE "Next ")
                         \o ToString(ParseInt(parts.amount)) \o " " \o spans[parts.unit].display
                         \o (IF ParseInt(parts.amount) > 1 THEN "s" ELSE ""),
             section |-> Get(spans[parts.unit], "section")] :
       parts \in {NowRegexExec(expr)}})

\* A caller calls one of the three functions.
CallerEnters(c) ==
  /\ callers[c].pc = "idle"
  /\ \/ \E expr \in CallerExprs :
          callers' = [callers EXCEPT ![c] =
            [pc |-> "normalize", fn |-> "describeTextRange", input |-> expr, expr |-> expr]]
     \/ \E value \in CallerValues :
          callers' = [callers EXCEPT ![c] =
            [pc |-> "sigil", fn |-> "isValidTimeSpan", input |-> value]]
     \/ \E range \in CallerRanges :
          callers' = [callers EXCEPT ![c] =
            [pc |-> "option", fn |-> "describeTimeRange", input |-> range]]
  /\ UNCHANGED <<op, arg, result, rangeIndex, data_source, nextID>>

\* isValidTimeSpan, lines 185-189: the sigil test, else the call of describeTextRange.
IsValidTimeSpanSigil(c) ==
  /\ callers[c].pc = "sigil"
  /\ callers' = [callers EXCEPT ![c] =
       IF IndexOf(@.input, "$") = 0 \/ IndexOf(@.input, "+$") = 0
       THEN [pc |-> "done", fn |-> @.fn, input |-> @.input, result |-> TRUE]
       ELSE [pc |-> "normalize", fn |-> @.fn, input |-> @.input, expr |-> @.input]]
  /\ UNCHANGED <<op, arg, result, rangeIndex, data_source, nextID>>

\* describeTimeRange, lines 154-181: the lookup in the index and the branches
\* that follow it; the branch for to = "now" calls describeTextRange.
DescribeTimeRangeOption(c) ==
  /\ callers[c].pc = "option"
  /\ LET range == callers[c].input.range
         key   == SideToString(range.from) \o " to " \o SideToString(range.to)
     IN  callers' = [callers EXCEPT ![c] =
           IF key \notin DOMAIN rangeIndex /\ ~isDateTime(range.from) /\ ~isDateTime(range.to)
              /\ range.to.str = "now"
           THEN [pc |-> "normalize", fn |-> @.fn, input |-> @.input, expr |-> range.from.str]
           ELSE [pc |-> "done", fn |-> @.fn, input |-> @.input,
                 result |-> describeTimeRange(rangeIndex, range, @.input.parsed)]]
  /\ UNCHANGED <<op, arg, result, rangeIndex, data_source, nextID>>

\* describeTextRange, lines 104-107.
DescribeTextRangeNormalize(c) ==
  /\ callers[c].pc = "normalize"
  /\ callers' = [callers EXCEPT ![c] =
       [pc |-> "lookup", fn |-> @.fn, input |-> @.input,
        isLast |-> IndexOf(@.expr, "+") # 0,
        expr |-> IF IndexOf(@.expr, "now") = -1
                 THEN (IF IndexOf(@.expr, "+") # 0 THEN "now-" ELSE "now") \o @.expr
                 ELSE @.expr]]
  /\ UNCHANGED <<op, arg, result, rangeIndex, data_source, nextID>>

\* describeTextRange, lines 109-112: the frame of the index is returned as it is.
DescribeTextRangeLookup(c) ==
  /\ callers[c].pc = "lookup"
  /\ callers' = [callers EXCEPT ![c] =
       IF (@.expr \o " to now") \in DOMAIN rangeIndex
       THEN [pc |-> "return", fn |-> @.fn, input |-> @.input,
             ret |-> rangeIndex[@.expr \o " to now"]]
       ELSE [pc |-> "build", fn |-> @.fn, input |-> @.input,
             isLast |-> @.isLast, expr |-> @.expr]]
  /\ UNCHANGED <<op, arg, result, rangeIndex, data_source, nextID>>

\* describeTextRange, lines 114-118: a new option object.
DescribeTextRangeBuild(c) ==
  /\ callers[c].pc = "build"
  /\ callers' = [callers EXCEPT ![c] =
       [pc |-> "decompose", fn |-> @.fn, input |-> @.input,
        isLast |-> @.isLast, expr |-> @.expr,
        opt |-> IF @.isLast THEN [from |-> @.expr, to |-> "now"]
                ELSE [from |-> "now", to |-> @.expr]]]
  /\ UNCHANGED <<op, arg, result, rangeIndex, data_source, nextID>>

\* Mutant: the option computed is also stored in the index under its key.
DescribeTextRangeDecompose_Memoizing(c) ==
  /\ callers[c].pc = "decompose"
  /\ callers' = [callers EXCEPT ![c] =
       [pc |-> "return", fn |-> @.fn, input |-> @.input,
        ret |-> DecomposeOpt(@.opt, @.expr, @.isLast)]]
  /\ rangeIndex' =
       [k \in DOMAIN rangeIndex \cup {callers[c].expr \o " to now"} |->
          IF k = callers[c].expr \o " to now"
          THEN DecomposeOpt(callers[c].opt, callers[c].expr, callers[c].isLast)
          ELSE rangeIndex[k]]
  /\ UNCHANGED <<op, arg, result, data_source, nextID>>

\* describeTextRange, lines 120-138: the option is completed and returned.
DescribeTextRangeDecompose(c) ==
  /\ callers[c].pc = "decompose"
  /\ callers' = [callers EXCEPT ![c] =
       [pc |-> "return", fn |-> @.fn, input |-> @.input,
        ret |-> DecomposeOpt(@.opt, @.expr, @.isLast)]]
  /\ UNCHANGED <<op, arg, result, rangeIndex, data_source, nextID>>

\* The value of describeTextRange reaches its caller: the outside caller
\* (line 111 or 138), describeTimeRange (line 178) or isValidTimeSpan (line 190).
CallerReturns(c) ==
  /\ callers[c].pc = "return"
  /\ callers' = [callers EXCEPT ![c] =
       [pc |-> "done", fn |-> @.fn, input |-> @.input,
        result |-> CASE @.fn = "describeTextRange" -> @.ret
                     [] @.fn = "describeTimeRange" -> Get(@.ret, "display")
                     [] @.fn = "isValidTimeSpan" ->
                          ~("invalid" \in DOMAIN @.ret /\ @.ret.invalid = TRUE)]]
  /\ UNCHANGED <<op, arg, result, rangeIndex, data_source, nextID>>

\* The caller has taken the result.
CallerLeaves(c) ==
  /\ callers[c].pc = "done"
  /\ callers' = [callers EXCEPT ![c] = IdleCaller]
  /\ UNCHANGED <<op, arg, result, rangeIndex, data_source, nextID>>

NextConcurrent ==
  \E c \in Callers :
    \/ CallerEnters(c)
    \/ IsValidTimeSpanSigil(c)
    \/ DescribeTimeRangeOption(c)
    \/ DescribeTextRangeNormalize(c)
    \/ DescribeTextRangeLookup(c)
    \/ DescribeTextRangeBuild(c)
    \/ DescribeTextRangeDecompose(c)
    \/ CallerReturns(c)
    \/ CallerLeaves(c)

SpecConcurrent == Init /\ [][NextConcurrent]_vars

\* -------------------------------------------------------- datasource store
\* SqlStore of part_005.  A row of data_source is kept by the columns the
\* handlers' conditions read and write: id, org_id, name, is_default, version.
\* The uid column and the columns that are only copied are left out.  A handler
\* is an operator from the command and the rows to the rows its session has
\* written and the error it returns; its action commits the rows when the
\* error is nil and keeps the table as it was otherwise.

\* The most rows ever inserted, and the highest version a command carries.
MaxID == 2

MaxVersion == 1

Orgs == {1, 2}

DataSourceNames == {"a", "b"}

\* cmd.UpdateSecretFn: nil (or a function that returns nil), or one that fails.
SecretFns == {"nil", "fails"}

AddDataSourceCommands ==
  [OrgID : Orgs, Name : DataSourceNames, IsDefault : BOOLEAN, UpdateSecretFn : SecretFns]

UpdateDataSourceCommands ==
  [ID : 1..MaxID, OrgID : Orgs, Name : DataSourceNames, IsDefault : BOOLEAN,
   Version : (0 - 1)..MaxVersion, UpdateSecretFn : SecretFns]

DeleteDataSourceCommands ==
  [ID : 0..MaxID, OrgID : {0} \cup Orgs, Name : {""} \cup DataSourceNames,
   UpdateSecretFn : SecretFns]

\* The table's unique index on (org_id, name), the one AddDataSource's lookup
\* of lines 224-229 answers before the insert would.
UniqueNames(rows) ==
  \A r, s \in rows : (r.org_id = s.org_id /\ r.name = s.name) => r = s

\* getDataSource, lines 57-75: sess.Get matches the non-zero fields of the
\* struct; Result is the set of the row found (empty for none).
getDataSource(query, rows) ==
  IF query.OrgID = 0 \/ (query.ID = 0 /\ Len(query.Name) = 0)
  THEN [err |-> "ErrDataSourceIdentifierNotSet", Result |-> {}]
  ELSE LET found == {r \in rows : /\ r.org_id = query.OrgID
                                  /\ (query.ID # 0 => r.id = query.ID)
                                  /\ (query.Name # "" => r.name = query.Name)}
       IN  IF found = {}
           THEN [err |-> "ErrDataSourceNotFound", Result |-> {}]
           ELSE [err |-> "nil", Result |-> found]

\* DeleteDataSource, lines 130-176.
DeleteDataSource(cmd, rows) ==
  LET dsQuery == getDataSource([ID |-> cmd.ID, Name |-> cmd.Name, OrgID |-> cmd.OrgID], rows)
      deleted == {r \in rows : \E ds \in dsQuery.Result :
                                 r.org_id = ds.org_id /\ r.id = ds.id}
  IN  IF dsQuery.err \notin {"nil", "ErrDataSourceNotFound"}
      THEN [rows |-> rows, err |-> dsQuery.err, DeletedDatasourcesCount |-> 0]
      ELSE IF cmd.UpdateSecretFn = "fails"
           THEN [rows |-> rows \ deleted, err |-> "err",
                 DeletedDatasourcesCount |-> Cardinality(deleted)]
           ELSE [rows |-> rows \ deleted, err |-> "nil",
                 DeletedDatasourcesCount |-> Cardinality(deleted)]

\* Mutant: the flag is cleared on the rows inserted before ds only.
updateIsDefaultFlag_OlderRowsOnly(ds, rows) ==
  IF ds.is_default
  THEN {IF r.org_id = ds.org_id /\ r.id < ds.id
        THEN [r EXCEPT !.is_default = FALSE] ELSE r : r \in rows}
  ELSE rows

\* updateIsDefaultFlag, lines 294-303:
\* UPDATE data_source SET is_default=false WHERE org_id=? AND id <> ?
updateIsDefaultFlag(ds, rows) ==
  IF ds.is_default
  THEN {IF r.org_id = ds.org_id /\ r.id # ds.id
        THEN [r EXCEPT !.is_default = FALSE] ELSE r : r \in rows}
  ELSE rows

\* AddDataSource, lines 222-292; id is the id the insert gives the row.
AddDataSource(cmd, rows, id) ==
  IF \E r \in rows : r.org_id = cmd.OrgID /\ r.name = cmd.Name
  THEN [rows |-> rows, err |-> "ErrDataSourceNameExists"]
  ELSE LET ds == [id |-> id, org_id |-> cmd.OrgID, name |-> cmd.Name,
                  is_default |-> cmd.IsDefault, version |-> 1]
           flagged == updateIsDefaultFlag(ds, rows \cup {ds})
       IN  IF cmd.UpdateSecretFn = "fails"
           THEN [rows |-> flagged, err |-> "err"]
           ELSE [rows |-> flagged, err |-> "nil"]

\* updateSession.Update(ds), line 357, on one matched row: the non-zero fields
\* of ds and the UseBool column is_default are written.
UpdateRow(r, ds) ==
  [r EXCEPT !.name = IF Len(ds.name) # 0 THEN ds.name ELSE @,
            !.is_default = ds.is_default,
            !.version = IF ds.version # 0 THEN ds.version ELSE @]

\* Mutant: the stored version has to be lower than cmd.Version itself.
UpdateDataSource_StrictlyOlder(cmd, rows) ==
  LET ds == [id |-> cmd.ID, org_id |-> cmd.OrgID, name |-> cmd.Name,
             is_default |-> cmd.IsDefault, version |-> cmd.Version + 1]
      matched == IF cmd.Version # 0
                 THEN {r \in rows : r.id = ds.id /\ r.org_id = ds.org_id
                                      /\ r.version < cmd.Version}
                 ELSE {r \in rows : r.id = ds.id /\ r.org_id = ds.org_id}
      updated == (rows \ matched) \cup {UpdateRow(r, ds) : r \in matched}
  IN  IF ~UniqueNames(updated)
      THEN [rows |-> rows, err |-> "err"]
      ELSE IF matched = {}
           THEN [rows |-> updated, err |-> "ErrDataSourceUpdatingOldVersion"]
           ELSE IF cmd.UpdateSecretFn = "fails"
                THEN [rows |-> updateIsDefaultFlag(ds, updated), err |-> "err"]
                ELSE [rows |-> updateIsDefaultFlag(ds, updated), err |-> "nil"]

\* UpdateDataSource, lines 305-378.  matched are the rows of the WHERE clause
\* (lines 348-355), "err" the error of the statement that breaks the unique
\* index (lines 358-360) or of UpdateSecretFn (lines 368-373).
UpdateDataSource(cmd, rows) ==
  LET ds == [id |-> cmd.ID, org_id |-> cmd.OrgID, name |-> cmd.Name,
             is_default |-> cmd.IsDefault, version |-> cmd.Version + 1]
      matched == IF cmd.Version # 0
                 THEN {r \in rows : r.id = ds.id /\ r.org_id = ds.org_id
                                      /\ r.version < ds.version}
                 ELSE {r \in rows : r.id = ds.id /\ r.org_id = ds.org_id}
      updated == (rows \ matched) \cup {UpdateRow(r, ds) : r \in matched}
  IN  IF ~UniqueNames(updated)
      THEN [rows |-> rows, err |-> "err"]
      ELSE IF matched = {}
           THEN [rows |-> updated, err |-> "ErrDataSourceUpdatingOldVersion"]
           ELSE IF cmd.UpdateSecretFn = "fails"
                THEN [rows |-> updateIsDefaultFlag(ds, updated), err |-> "err"]
                ELSE [rows |-> updateIsDefaultFlag(ds, updated), err |-> "nil"]

\* WithTransactionalDbSession (lines 131, 223, 306): the session's rows are
\* committed when the handler returns nil and rolled back when it returns an
\* error.  arg keeps the command and the table the transaction started from.
AddDataSourceCall ==
  /\ op = "idle"
  /\ nextID <= MaxID
  /\ \E cmd \in AddDataSourceCommands :
       \E out \in {AddDataSource(cmd, data_source, nextID)} :
         /\ op' = "AddDataSource"
         /\ arg' = <<cmd, data_source>>
         /\ result' = Return(out.err)
         /\ data_source' = IF out.err = "nil" THEN out.rows ELSE data_source
         /\ nextID' = IF out.err = "nil" THEN nextID + 1 ELSE nextID
  /\ UNCHANGED <<rangeIndex, callers>>

UpdateDataSourceCall ==
  /\ op = "idle"
  /\ \E cmd \in UpdateDataSourceCommands :
       \E out \in {UpdateDataSource(cmd, data_source)} :
         /\ op' = "UpdateDataSource"
         /\ arg' = <<cmd, data_source>>
         /\ result' = Return(out.err)
         /\ data_source' = IF out.err = "nil" THEN out.rows ELSE data_source
  /\ UNCHANGED <<rangeIndex, callers, nextID>>

DeleteDataSourceCall ==
  /\ op = "idle"
  /\ \E cmd \in DeleteDataSourceCommands :
       \E out \in {DeleteDataSource(cmd, data_source)} :
         /\ op' = "DeleteDataSource"
         /\ arg' = <<cmd, data_source>>
         /\ result' = Return(out.err)
         /\ data_source' = IF out.err = "nil" THEN out.rows ELSE data_source
  /\ UNCHANGED <<rangeIndex, callers, nextID>>

NextStore ==
  \/ AddDataSourceCall
  \/ UpdateDataSourceCall
  \/ DeleteDataSourceCall
  \/ Complete

SpecStore == Init /\ [][NextStore]_vars

\* ------------------------------------------------------------------ claims

MsMax(a, b) == IF MsLess(a, b) THEN b ELSE a

StartsWith(s, prefix) == Len(s) >= Len(prefix) /\ SubSeq(s, 1, Len(prefix)) = prefix

Contains(s, sub) == \E i \in 1..(Len(s) - Len(sub) + 1) : SubSeq(s, i, i + Len(sub) - 1) = sub

\* The token describeTextRange looks up and decomposes: expr itself when it
\* contains "now", else "now" + expr for a leading "+", else "now-" + expr.
Normalized(expr) ==
  IF Contains(expr, "now") THEN expr
  ELSE IF StartsWith(expr, "+") THEN "now" \o expr
  ELSE "now-" \o expr

\* token begins with now, a sign, an integer and a unit of {s, m, h, d, w, M, y}.
IsNowAmountUnit(token) ==
  /\ StartsWith(token, "now")
  /\ Len(token) >= 6
  /\ CharAt(token, 4) \in {"-", "+"}
  /\ DigitRun(token, 5) >= 1
  /\ 5 + DigitRun(token, 5) <= Len(token)
  /\ CharAt(token, 5 + DigitRun(token, 5)) \in {"s", "m", "h", "d", "w", "M", "y"}

\* str is exactly a number immediately followed by one unit.
IsNumberAndUnit(str) ==
  /\ Len(str) >= 1
  /\ IntervalRegexAt(str, 1).matched
  /\ Len(IntervalRegexAt(str, 1).number) + Len(IntervalRegexAt(str, 1).unit) = Len(str)

\* str is a numeral of digits only.
IsDigitsOnly(str) == Len(str) >= 1 /\ DigitRun(str, 1) = Len(str)

\* C1 (as stated): roundInterval(9) = 1, roundInterval(10) = 10,
\* roundInterval(14999) = 10000 and roundInterval(15000) = 15000.
C1_DocumentedBoundaries ==
  (op = "roundInterval" /\ arg[1].den = 1) =>
    /\ arg[1].num = Ms(9) => result.value = Ms(1)
    /\ arg[1].num = Ms(10) => result.value = Ms(10)
    /\ arg[1].num = Ms(14999) => result.value = Ms(10000)
    /\ arg[1].num = Ms(15000) => result.value = Ms(15000)

\* C1 (amended): roundInterval(9) = 1, roundInterval(10) = 10,
\* roundInterval(14999) = 15000 and roundInterval(15000) = 15000: 14999 lies in
\* the band [12500, 17500) of the 15 s rung.
C1_BoundariesOfTheCode ==
  (op = "roundInterval" /\ arg[1].den = 1) =>
    /\ arg[1].num = Ms(9) => result.value = Ms(1)
    /\ arg[1].num = Ms(10) => result.value = Ms(10)
    /\ arg[1].num = Ms(14999) => result.value = Ms(15000)
    /\ arg[1].num = Ms(15000) => result.value = Ms(15000)

C1_Witness ==
  /\ op = "roundInterval"
  /\ arg[1] = Quotient(Ms(14999), 1)
  /\ result.value = Ms(15000)

\* C2 (as stated): for every resolved range R with millisecond precision and
\* every reference instant T, relativeToTimeRange(timeRangeToRelative(R, T), T)
\* has exactly R.from and R.to as its from and to.
C2_RoundTripExact ==
  op = "timeRangeToRelative" =>
    LET back == relativeToTimeRange(result.value, arg[2])
    IN  back.from = arg[1].from /\ back.to = arg[1].to

\* C2 (amended): the round trip yields the whole second of R.from (of R.to)
\* with the millisecond part of T, so it reproduces the instant exactly if and
\* only if the instant and T have the same millisecond part.
C2_RoundTripToTheSecond ==
  op = "timeRangeToRelative" =>
    LET R    == arg[1]
        T    == arg[2]
        back == relativeToTimeRange(result.value, T)
    IN  /\ back.from = 1000 * (R.from \div 1000) + (T % 1000)
        /\ back.to = 1000 * (R.to \div 1000) + (T % 1000)
        /\ (back.from = R.from) <=> (R.from % 1000 = T % 1000)
        /\ (back.to = R.to) <=> (R.to % 1000 = T % 1000)

C2_Witness ==
  /\ op = "timeRangeToRelative"
  /\ arg[1].from % 1000 = 500
  /\ arg[1].to % 1000 = 500
  /\ arg[2] % 1000 = 500
  /\ arg[1].from < arg[1].to
  /\ arg[1].to < arg[2]
  /\ relativeToTimeRange(result.value, arg[2]).from = arg[1].from
  /\ relativeToTimeRange(result.value, arg[2]).to = arg[1].to

\* C3: for every preset p of either table, describeTextRange on p's canonical
\* token (p.from or its bare form when p.to = "now", p.to or its bare form
\* when p.from = "now") returns the display of p.
C3_PresetTokenGivesPresetLabel ==
  op = "describeTextRange" =>
    \A i \in DOMAIN Presets :
      LET p == Presets[i]
      IN  (\/ p.to = "now" /\ arg[1] \in {p.from, BareForm(p.from)}
           \/ p.from = "now" /\ arg[1] \in {p.to, BareForm(p.to)})
          => Get(result.value, "display") = p.display

C5_UndecomposableIsInvalid ==
  op = "describeTextRange" =>
    /\ result.kind = "return"
    /\ ((Normalized(arg[1]) \o " to now") \notin DOMAIN rangeIndex
          /\ ~IsNowAmountUnit(Normalized(arg[1])))
        => /\ "invalid" \in DOMAIN result.value
           /\ result.value.invalid = TRUE
           /\ "display" \in DOMAIN result.value
           /\ result.value.display = result.value.from \o " to " \o result.value.to

\* C6: describeInterval, intervalToSeconds and intervalToMs fail with the
\* invalid-interval error for every non-numeric string that is not exactly a
\* number immediately followed by one of the units.
C6_MalformedIntervalFails ==
  (op \in {"describeInterval", "intervalToSeconds", "intervalToMs"}
     /\ ~IsDecimalNumeral(arg[1]) /\ ~IsNumberAndUnit(arg[1]))
    => result = Throw(InvalidIntervalError)

\* C7: for every string that is a pure non-negative integer numeral, "0"
\* included, describeInterval returns {sec: 1, type: 's', count: n}.
C7_PureNumeralIsSeconds ==
  (op = "describeInterval" /\ IsDigitsOnly(arg[1])) =>
    result = Return([sec |-> [num |-> 1, den |-> 1], type |-> "s",
                     count |-> DecimalValue(arg[1])])

\* C8: for every preset p of either table, describeTimeRange({from: p.from,
\* to: p.to}) returns p.display verbatim, and no two presets share the key
\* "<from> to <to>": the index holds as many keys as the tables hold presets.
C8_PresetLabelVerbatim ==
  /\ Cardinality(DOMAIN rangeIndex) = Len(Presets)
  /\ op = "describeTimeRange" =>
       \A i \in DOMAIN Presets :
         (arg[1].from = StringSide(Presets[i].from) /\ arg[1].to = StringSide(Presets[i].to))
           => result = Return(Presets[i].display)

C8_Witness ==
  /\ op = "describeTimeRange"
  /\ arg[1] = [from |-> StringSide("now"), to |-> StringSide("now+5m")]
  /\ result = Return("Sledvashtite 5 minuti")

\* C9: for every raw range whose two sides are strings, describeTimeRange
\* returns a string; when raw.to is "now" and no preset matches, it is the
\* display of describeTextRange(raw.from), defined for every raw.from.
C9_DescribeTimeRangeGivesString ==
  (op = "describeTimeRange" /\ ~isDateTime(arg[1].from) /\ ~isDateTime(arg[1].to)) =>
    /\ result.kind = "return"
    /\ result.value # Undefined
    /\ (arg[1].to.str = "now"
          /\ (arg[1].from.str \o " to now") \notin DOMAIN rangeIndex)
        => /\ "display" \in DOMAIN describeTextRange(rangeIndex, arg[1].from.str)
           /\ result.value = describeTextRange(rangeIndex, arg[1].from.str).display

IsRelativeSide(side) == side.type = "string" /\ StartsWith(side.str, "now")

\* C11: convertRawToRange returns the caller's raw pair unchanged as
\* result.raw whenever at least one side is a relative expression, and
\* otherwise result.raw is exactly the pair of the two resolved instants it
\* returns as from and to (the raw pair handed in is the one recorded in arg:
\* the call assigns nothing to it).
C11_RawKeptOrResolved ==
  op = "convertRawToRange" =>
    LET raw == arg[1]
        res == result.value
    IN  /\ result.kind = "return"
        /\ (IsRelativeSide(raw.from) \/ IsRelativeSide(raw.to)) => res.raw = raw
        /\ ~(IsRelativeSide(raw.from) \/ IsRelativeSide(raw.to))
             => res.raw = [from |-> res.from, to |-> res.to]

C11_Witness ==
  /\ op = "convertRawToRange"
  /\ arg[1] = [from |-> DateTimeSide(500), to |-> StringSide("now/d")]
  /\ result.value.raw = arg[1]
  /\ result.value.from = DateTimeSide(500)

\* C12: convertRawToRange resolves raw.from with rounding down and raw.to
\* with rounding up; for a raw pair carrying the same rounded relative
\* expression on both sides, from is the start and to the last millisecond of
\* the unit that holds the instant the expression names, and from <= to.
C12_FromFlooredToCeiled ==
  op = "convertRawToRange" =>
    LET raw == arg[1]
        now == arg[2]
        res == result.value
    IN  /\ res.from = dateTimeParse(raw.from, FALSE, now)
        /\ res.to = dateTimeParse(raw.to, TRUE, now)
        /\ (raw.from = raw.to /\ raw.from.type = "string"
              /\ ParseRelative(raw.from.str).matched
              /\ ParseRelative(raw.from.str).round # "")
            => LET parts == ParseRelative(raw.from.str)
                   len   == UnitLengthMs(parts.round)
                   named == IF parts.sign = "-"
                            THEN now - parts.amount * UnitLengthMs(parts.unit)
                            ELSE now + parts.amount * UnitLengthMs(parts.unit)
               IN  /\ isDateTime(res.from) /\ isDateTime(res.to)
                   /\ res.from.ms % len = 0
                   /\ res.to.ms = res.from.ms + len - 1
                   /\ res.from.ms <= named /\ named <= res.to.ms
                   /\ res.from.ms <= res.to.ms

C12_Witness ==
  /\ op = "convertRawToRange"
  /\ arg[1] = [from |-> StringSide("now/d"), to |-> StringSide("now/d")]
  /\ arg[2] = 90061001
  /\ result.value.from = DateTimeSide(86400000)
  /\ result.value.to = DateTimeSide(172799999)

\* C13: for every reference instant now and every relative.from,
\* relativeToTimeRange({from, to: 0}, now) returns to equal to now to the
\* millisecond and from equal to now minus relative.from seconds, and the
\* reference instant passed in holds the same instant after the call.
C13_ToZeroIsExactlyNow ==
  (op = "relativeToTimeRange" /\ arg[1].to = 0) =>
    /\ result.value.to = arg[2]
    /\ result.value.from = arg[2] - 1000 * arg[1].from
    /\ arg[3] = arg[2]

C13_Witness ==
  /\ op = "relativeToTimeRange"
  /\ arg[1] = [from |-> 2, to |-> 0]
  /\ arg[2] = 2500
  /\ result.value.to = 2500
  /\ result.value.from = 500
  /\ arg[3] = 2500

\* C14: for every token that does not contain "now": if it starts with "+",
\* describeTextRange returns from = "now" and to = "now" + token; otherwise it
\* returns from = "now-" + token and to = "now".  A token that contains "now"
\* is used unchanged, as to after from = "now" when it starts with "+" and as
\* from before to = "now" otherwise.  (Stated for every token: a preset found
\* for the token holds the same pair.)
C14_BareTokenDirection ==
  op = "describeTextRange" =>
    LET token == arg[1]
        opt   == result.value
    IN  /\ (~Contains(token, "now") /\ StartsWith(token, "+"))
              => (opt.from = "now" /\ opt.to = "now" \o token)
        /\ (~Contains(token, "now") /\ ~StartsWith(token, "+"))
              => (opt.from = "now-" \o token /\ opt.to = "now")
        /\ (Contains(token, "now") /\ StartsWith(token, "+"))
              => (opt.from = "now" /\ opt.to = token)
        /\ (Contains(token, "now") /\ ~StartsWith(token, "+"))
              => (opt.from = token /\ opt.to = "now")

C14_Witness ==
  /\ op = "describeTextRange"
  /\ arg[1] = "+3h"
  /\ "now+3h to now" \notin DOMAIN rangeIndex
  /\ result.value.from = "now"
  /\ result.value.to = "now+3h"

\* C15: after any sequence and any interleaving of calls to
\* describeTextRange, describeTimeRange and isValidTimeSpan by concurrent
\* callers, the preset index holds exactly the entries it was built with, and
\* every call returns the result it returns when run alone on its argument.
C15_IndexReadOnly ==
  /\ rangeIndex = BuildRangeIndex
  /\ \A c \in Callers :
       callers[c].pc = "done" =>
         CASE callers[c].fn = "describeTextRange" ->
                callers[c].result = describeTextRange(BuildRangeIndex, callers[c].input)
           [] callers[c].fn = "describeTimeRange" ->
                callers[c].result = describeTimeRange(BuildRangeIndex, callers[c].input.range,
                                                      callers[c].input.parsed)
           [] callers[c].fn = "isValidTimeSpan" ->
                callers[c].result = isValidTimeSpan(BuildRangeIndex, callers[c].input)

\* Two callers are inside describeTextRange at the same time, one already
\* past the decomposition, the other before its lookup in the index.
C15_Witness ==
  /\ callers[1].pc = "return"
  /\ callers[1].fn = "describeTextRange"
  /\ callers[1].input = "now-5x"
  /\ callers[2].pc = "lookup"
  /\ callers[2].fn = "isValidTimeSpan"
  /\ callers[2].input = "7h"
  /\ rangeIndex = BuildRangeIndex

\* C16: roundInterval returns a value for every input that is not negative,
\* every value it returns is one of the 30 rungs of the ladder, and each of
\* the 30 rungs is returned for some input that is not negative.
C16_ResultsAreExactlyTheLadder ==
  /\ op = "roundInterval" => (result.kind = "return" /\ result.value \in Ladder)
  /\ op = "idle" =>
       /\ Cardinality(Ladder) = 30
       /\ \A rung \in Ladder :
            \E interval \in Intervals :
              ~Below(interval, Ms(0)) /\ roundInterval(interval) = rung

C16_Witness ==
  /\ op = "roundInterval"
  /\ arg[1] = Quotient(Seconds(40000000), 1)
  /\ result = Return(Seconds(31536000))

MsAbs(a) == IF a.s < 0 THEN MsMinus(Ms(0), a) ELSE a

\* The distance between the step num / den and a rung, times den.
Distance(step, rung) == MsAbs(MsMinus(step.num, MsTimes(rung, step.den)))

\* No rung is strictly closer to step than rung is.
IsNearestRung(rung, step) ==
  \A other \in Ladder : ~MsLess(Distance(step, other), Distance(step, rung))

\* k < step, for a quotient and a wide number.
Above(step, k) == MsLess(MsTimes(k, step.den), step.num)

\* The steps the code's thresholds do not send to the nearest rung: above
\* 5.5 ms and below 10 ms; above the value halfway between 12 h and 1 d,
\* 1 d and 1 w, 1 w and 30 d and below 1 d, 1 w, 3 weeks; from 6 weeks to
\* below the value halfway between 30 d and 1 y.
InWideBand(step) ==
  \/ Above(Quotient(MsTimes(step.num, 2), step.den), Ms(11)) /\ Below(step, Ms(10))
  \/ Above(step, Ms(64800000)) /\ Below(step, Ms(86400000))
  \/ Above(step, Ms(345600000)) /\ Below(step, Ms(604800000))
  \/ Above(step, Ms(1598400000)) /\ Below(step, Ms(1814400000))
  \/ ~Below(step, Seconds(3628800)) /\ Below(step, Seconds(17064000))

\* C17 (as stated): for every range with from <= to and every positive
\* resolution, the value calculateInterval snaps to before the lower bound is
\* applied (its intervalMs when no lowLimitInterval is given) is the ladder
\* rung nearest to (to - from) / resolution: no other rung is strictly closer.
C17_SnapsToNearestRung ==
  (op = "calculateInterval" /\ arg[3] \in {Undefined, ""}
     /\ ~MsLess(arg[1].to, arg[1].from)) =>
    IsNearestRung(result.value.intervalMs, Quotient(MsMinus(arg[1].to, arg[1].from), arg[2]))

\* C17 (amended): the value snapped to is the rung of the code's thresholds;
\* it is the nearest rung (no other rung strictly closer) exactly when the raw
\* step lies outside the bands (5.5 ms, 10 ms), (18 h, 1 d), (4 d, 1 w),
\* (18.5 d, 3 weeks) and [6 weeks, 197.5 d).
C17_NearestOutsideTheWideBands ==
  (op = "calculateInterval" /\ arg[3] \in {Undefined, ""}
     /\ ~MsLess(arg[1].to, arg[1].from)) =>
    LET step == Quotient(MsMinus(arg[1].to, arg[1].from), arg[2])
    IN  /\ result.value.intervalMs = roundInterval(step)
        /\ IsNearestRung(result.value.intervalMs, step) <=> ~InWideBand(step)

C17_Witness ==
  /\ op = "calculateInterval"
  /\ arg[3] = Undefined
  /\ arg[2] = 2
  /\ MsMinus(arg[1].to, arg[1].from) = Ms(129600000)
  /\ result.value.intervalMs = Ms(43200000)
  /\ IsNearestRung(Ms(43200000), Quotient(Ms(129600000), 2))
  /\ IsNearestRung(Ms(86400000), Quotient(Ms(129600000), 2))

\* The label of the largest component of a millisecond count that is not zero,
\* the components taken greedily from the whole seconds: years of 31536000 s,
\* then days, hours, minutes and seconds of what is left, then milliseconds.
LargestUnitLabel(intervalMs) ==
  LET y  == intervalMs.s \div 31536000
      r1 == intervalMs.s - y * 31536000
      d  == r1 \div 86400
      r2 == r1 - d * 86400
      h  == r2 \div 3600
      r3 == r2 - h * 3600
      m  == r3 \div 60
      sc == r3 - m * 60
  IN  CASE y > 0 -> ToString(y) \o "y"
        [] y = 0 /\ d > 0 -> ToString(d) \o "d"
        [] y = 0 /\ d = 0 /\ h > 0 -> ToString(h) \o "h"
        [] y = 0 /\ d = 0 /\ h = 0 /\ m > 0 -> ToString(m) \o "m"
        [] y = 0 /\ d = 0 /\ h = 0 /\ m = 0 /\ sc > 0 -> ToString(sc) \o "s"
        [] intervalMs.s = 0 /\ intervalMs.ms > 0 -> ToString(intervalMs.ms) \o "ms"
        [] intervalMs.s = 0 /\ intervalMs.ms = 0 -> "less than a millisecond"

\* C18: for every intervalMs that is not negative, the interval label is the
\* count and suffix of the largest unit, in the order year > day > hour >
\* minute > second > millisecond, whose component of intervalMs / 1000 is not
\* zero, and only that unit (never weeks or months); it is "less than a
\* millisecond" exactly when intervalMs < 1.  Stated of secondsToHms and of
\* the interval calculateInterval returns with its intervalMs.
C18_LabelIsLargestUnit ==
  /\ op = "secondsToHms" =>
       /\ result.value = LargestUnitLabel(arg[1])
       /\ (result.value = "less than a millisecond") <=> MsLess(arg[1], Ms(1))
  /\ (op = "calculateInterval" /\ result.kind = "return") =>
       /\ result.value.interval = LargestUnitLabel(result.value.intervalMs)
       /\ result.value.interval # "less than a millisecond"

C18_Witness ==
  /\ op = "secondsToHms"
  /\ arg[1] = Ms(604800000)
  /\ result.value = "7d"

\* The canonical seconds of the units, as the specification lists them.
CanonicalSeconds ==
  [y |-> 31536000, M |-> 2592000, w |-> 604800, d |-> 86400, h |-> 3600, m |-> 60, s |-> 1]

\* C19: for every integer count n and every unit u of {y, M, w, d, h, m, s},
\* intervalToSeconds(n + u) = n x the canonical seconds of u and
\* intervalToMs(n + u) = 1000 x intervalToSeconds(n + u); nM is 43200 times nm;
\* intervalToMs(n + "ms") = n, milliseconds and not minutes.
C19_CountTimesCanonicalSeconds ==
  /\ op = "intervalToSeconds" =>
       \A n \in (0 - MaxCount)..MaxCount, u \in DOMAIN CanonicalSeconds :
         arg[1] = ToString(n) \o u =>
           /\ result = Return([num |-> n * CanonicalSeconds[u], den |-> 1])
           /\ u = "M" => result.value.num = 43200 * intervalToSeconds(ToString(n) \o "m").value.num
  /\ op = "intervalToMs" =>
       \A n \in (0 - MaxCount)..MaxCount :
         /\ \A u \in DOMAIN CanonicalSeconds :
              arg[1] = ToString(n) \o u =>
                result = Return(MsTimes(Seconds(n * CanonicalSeconds[u]), 1))
         /\ arg[1] = ToString(n) \o "ms" => result = Return(Ms(n))

C19_Witness ==
  /\ op = "intervalToMs"
  /\ arg[1] = "3ms"
  /\ result = Return(Ms(3))

\* C20: for every relative range rel and every two reference instants T1 and
\* T2, relativeToTimeRange(rel, T2) is relativeToTimeRange(rel, T1) with from
\* and to both shifted by exactly T2 - T1: the absolute range differs whenever
\* T1 differs from T2, and the duration to - from is (rel.from - rel.to)
\* seconds whatever the reference instant.
C20_ReanchoringShifts ==
  op = "relativeToTimeRange" =>
    LET rel == arg[1]
        T1  == arg[2]
        at1 == result.value
    IN  /\ at1.to - at1.from = 1000 * (rel.from - rel.to)
        /\ \A T2 \in Instants :
             LET at2 == relativeToTimeRange(rel, T2)
             IN  /\ at2.from = at1.from + (T2 - T1)
                 /\ at2.to = at1.to + (T2 - T1)
                 /\ at2.to - at2.from = 1000 * (rel.from - rel.to)
                 /\ T1 # T2 => (at2.from # at1.from /\ at2.to # at1.to)

C20_Witness ==
  /\ op = "relativeToTimeRange"
  /\ arg[1] = [from |-> 2, to |-> 1]
  /\ arg[2] = 2500
  /\ result.value.from = 500
  /\ result.value.to = 1500
  /\ relativeToTimeRange(arg[1], 1001).from = 0 - 999
  /\ relativeToTimeRange(arg[1], 1001).to = 1

\* The names of the units (the display column of the unit table).
UnitName ==
  [s |-> "sekunda", m |-> "minuta", h |-> "chas", d |-> "den",
   w |-> "sedmitsa", M |-> "mesets", y |-> "godina"]

\* C21: for every expression that matches no preset and whose token
\* decomposes as now[+-]<amount><unit> with a unit of {s, m, h, d, w, M, y},
\* describeTextRange returns display = "Last " (the range returned ends at
\* now) or "Next " (it starts at now, the expression begins with "+"), then
\* amount, a blank and the unit's name, then the plural suffix exactly when
\* amount > 1; invalid is not set and section is the one of the unit table.
C21_DecomposedLabel ==
  (op = "describeTextRange"
     /\ (Normalized(arg[1]) \o " to now") \notin DOMAIN rangeIndex
     /\ IsNowAmountUnit(Normalized(arg[1]))) =>
    LET token   == Normalized(arg[1])
        n       == DigitRun(token, 5)
        amount  == DecimalValue(SubSeq(token, 5, 4 + n))
        unit    == CharAt(token, 5 + n)
        opt     == result.value
        forward == StartsWith(arg[1], "+")
    IN  /\ forward => (opt.from = "now" /\ opt.to = token)
        /\ ~forward => (opt.from = token /\ opt.to = "now")
        /\ "display" \in DOMAIN opt
        /\ opt.display = (IF forward THEN "Next " ELSE "Last ") \o ToString(amount) \o " "
                           \o UnitName[unit] \o (IF amount > 1 THEN "s" ELSE "")
        /\ "invalid" \notin DOMAIN opt
        /\ Get(opt, "section") = Get(spans[unit], "section")

C21_Witness ==
  /\ op = "describeTextRange"
  /\ arg[1] = "+1h"
  /\ result.value.display = "Next 1 chas"
  /\ result.value.from = "now"
  /\ "invalid" \notin DOMAIN result.value

\* a <= b for two quotients of millisecond counts.
QuotientLeq(a, b) == ~MsLess(MsTimes(b.num, a.den), MsTimes(a.num, b.den))

\* Whole steps at and one millisecond below every threshold of roundInterval.
ThresholdSteps == {Quotient(MsPlus(b, Ms(e)), 1) : b \in Boundaries, e \in {-1, 0}}

\* C23: roundInterval is monotonic: for all a <= b that are not negative,
\* roundInterval(a) <= roundInterval(b) (b taken among the whole steps given
\* and those around every threshold); and with the same start, resolution and
\* lower bound (none, or "90s"), a longer range, taken with its step at or just
\* below each threshold, never gives a smaller intervalMs of calculateInterval
\* than a shorter one.
C23_RoundIntervalMonotonic ==
  /\ (op = "roundInterval" /\ ~Below(arg[1], Ms(0))) =>
       \A b \in ThresholdSteps \cup {Quotient(n, 1) : n \in Spans} :
         QuotientLeq(arg[1], b) => ~MsLess(roundInterval(b), result.value)
  /\ (op = "calculateInterval" /\ arg[3] \in {Undefined, "90s"}
        /\ ~MsLess(arg[1].to, arg[1].from)) =>
       \A b \in Boundaries, e \in {-1, 0} :
         LET longer == [from |-> arg[1].from,
                        to   |-> MsPlus(arg[1].from, MsPlus(MsTimes(b, arg[2]), Ms(e)))]
         IN  ~MsLess(longer.to, arg[1].to) =>
               ~MsLess(calculateInterval(longer, arg[2], arg[3]).value.intervalMs,
                       result.value.intervalMs)

C23_Witness ==
  /\ op = "calculateInterval"
  /\ arg[1] = [from |-> Ms(0), to |-> Ms(9)]
  /\ arg[2] = 1
  /\ arg[3] = Undefined
  /\ result.value.intervalMs = Ms(1)
  /\ calculateInterval([from |-> Ms(0), to |-> Ms(10)], 1, Undefined).value.intervalMs = Ms(10)

\* C24: roundInterval is idempotent: each of the 30 rungs is a fixed point,
\* roundInterval(r) = r, so roundInterval(roundInterval(x)) = roundInterval(x)
\* for every x that is not negative.
C24_RoundIntervalIdempotent ==
  /\ op = "idle" => \A r \in Ladder : roundInterval(Quotient(r, 1)) = r
  /\ (op = "roundInterval" /\ ~Below(arg[1], Ms(0))) =>
       roundInterval(Quotient(result.value, 1)) = result.value

C24_Witness ==
  /\ op = "roundInterval"
  /\ arg[1] = Quotient(Ms(86400000), 1)
  /\ result.value = Ms(86400000)
  /\ roundInterval(Quotient(result.value, 1)) = Ms(86400000)

\* At most one of the components (years, days, hours, minutes, seconds,
\* milliseconds) of a millisecond count is not zero.
SingleComponent(intervalMs) ==
  LET y  == intervalMs.s \div 31536000
      r1 == intervalMs.s % 31536000
      d  == r1 \div 86400
      h  == (r1 % 86400) \div 3600
      m  == (r1 % 3600) \div 60
      sc == r1 % 60
  IN  Cardinality({i \in 1..6 : <<y, d, h, m, sc, intervalMs.ms>>[i] # 0}) <= 1

\* C25: for every ladder rung r, the label calculateInterval produces with
\* intervalMs = r parses back, with intervalToMs, to exactly r (a week is
\* "7d", 30 days "30d"); an intervalMs set by a lower bound that has more
\* than one component ("90s" is 1 m 30 s) gets a label that parses back to a
\* smaller value.
C25_RungLabelsAreLossless ==
  /\ op = "idle" =>
       \A r \in Ladder :
         LET res == calculateInterval([from |-> Ms(0), to |-> r], 1, Undefined).value
         IN  res.intervalMs = r /\ intervalToMs(res.interval) = Return(r)
  /\ (op = "calculateInterval" /\ result.kind = "return") =>
       LET res  == result.value
           back == intervalToMs(res.interval)
       IN  /\ back.kind = "return"
           /\ res.intervalMs \in Ladder => back.value = res.intervalMs
           /\ SingleComponent(res.intervalMs) => back.value = res.intervalMs
           /\ ~SingleComponent(res.intervalMs) => MsLess(back.value, res.intervalMs)
           /\ res.intervalMs = Seconds(604800) => res.interval = "7d"
           /\ res.intervalMs = Seconds(2592000) => res.interval = "30d"

C25_Witness ==
  /\ op = "calculateInterval"
  /\ arg[3] = "90s"
  /\ result.kind = "return"
  /\ result.value.intervalMs = Seconds(90)
  /\ result.value.interval = "1m"
  /\ intervalToMs("1m") = Return(Seconds(60))

\* C26: for every relative range rel with whole second offsets (positive,
\* zero or negative) and every reference instant T,
\* timeRangeToRelative(relativeToTimeRange(rel, T), T) is exactly rel, also
\* when T is not on a whole second; an offset is negative exactly when its
\* instant is after T.
C26_RelativeRoundTrip ==
  op = "relativeToTimeRange" =>
    LET rel   == arg[1]
        T     == arg[2]
        range == result.value
    IN  /\ timeRangeToRelative(range, T) = rel
        /\ rel.from < 0 <=> range.from > T
        /\ rel.to < 0 <=> range.to > T

C26_Witness ==
  /\ op = "relativeToTimeRange"
  /\ arg[1] = [from |-> 2, to |-> 0 - 1]
  /\ arg[2] = 1500
  /\ result.value.from = 0 - 500
  /\ result.value.to = 2500
  /\ timeRangeToRelative(result.value, 1500) = arg[1]

\* The rows of a table with the id and org_id of a command.
StoredRows(rows, cmd) == {r \in rows : r.id = cmd.ID /\ r.org_id = cmd.OrgID}

\* C22: UpdateDataSource with cmd.Version different from 0 changes the table
\* only when the stored version of the row is at most cmd.Version, and then
\* the row's version is cmd.Version + 1, strictly greater than before (a
\* stored version of at most cmd.Version is never refused as old); when
\* the stored version is higher, or no row has that id and org, the error is
\* ErrDataSourceUpdatingOldVersion and every row, the default flags of the
\* others included, is as before.  With cmd.Version = 0 a stored row is never
\* refused for its version, and a committed update leaves it at version 1.
C22_UpdateChecksStoredVersion ==
  op = "UpdateDataSource" =>
    LET cmd    == arg[1]
        before == arg[2]
        stored == StoredRows(before, cmd)
    IN  /\ (cmd.Version # 0 /\ data_source # before) =>
             /\ result.value = "nil"
             /\ \E r \in stored, s \in StoredRows(data_source, cmd) :
                  /\ r.version <= cmd.Version
                  /\ s.version = cmd.Version + 1
                  /\ s.version > r.version
        /\ (cmd.Version # 0 /\ \E r \in stored : r.version <= cmd.Version) =>
             /\ result.value # "ErrDataSourceUpdatingOldVersion"
             /\ result.value = "nil" => data_source # before
        /\ (cmd.Version # 0 /\ \A r \in stored : r.version > cmd.Version) =>
             /\ result.value = "ErrDataSourceUpdatingOldVersion"
             /\ data_source = before
        /\ (cmd.Version = 0 /\ stored # {}) =>
             /\ result.value # "ErrDataSourceUpdatingOldVersion"
             /\ result.value = "nil" =>
                  \A s \in StoredRows(data_source, cmd) : s.version = 1
        /\ (cmd.Version = 0 /\ stored = {}) =>
             /\ result.value = "ErrDataSourceUpdatingOldVersion"
             /\ data_source = before

\* An update as default with version 1 of a row stored at version 2, beside
\* another row of the organization that is the default: refused, nothing
\* changed.
C22_Witness ==
  /\ op = "UpdateDataSource"
  /\ arg[1].Version = 1
  /\ arg[1].IsDefault
  /\ \E r \in StoredRows(arg[2], arg[1]) : r.version = 2 /\ ~r.is_default
  /\ \E r \in arg[2] : r.org_id = arg[1].OrgID /\ r.id # arg[1].ID /\ r.is_default
  /\ result.value = "ErrDataSourceUpdatingOldVersion"
  /\ data_source = arg[2]

\* The same version accepted: the row stored at version 1 is written and is
\* at version 2 afterwards.
C22_WitnessAccepted ==
  /\ op = "UpdateDataSource"
  /\ arg[1].Version = 1
  /\ \E r \in StoredRows(arg[2], arg[1]) : r.version = 1
  /\ result.value = "nil"
  /\ \E s \in StoredRows(data_source, arg[1]) : s.version = 2

\* The ids of the rows a committed AddDataSource or UpdateDataSource wrote.
WrittenIDs ==
  IF op = "AddDataSource"
  THEN {r.id : r \in data_source} \ {b.id : b \in arg[2]}
  ELSE {arg[1].ID}

\* C27: after any sequence of committed AddDataSource, UpdateDataSource and
\* DeleteDataSource transactions from the empty table, an organization has at
\* most one row with is_default; a committed add or update as default leaves
\* the flag on no other row of the organization and leaves the rows of the
\* other organizations as they were.
C27_AtMostOneDefaultPerOrg ==
  /\ \A o \in Orgs :
       Cardinality({r \in data_source : r.org_id = o /\ r.is_default}) <= 1
  /\ (op \in {"AddDataSource", "UpdateDataSource"} /\ result.value = "nil"
        /\ arg[1].IsDefault) =>
       /\ \A r \in data_source :
            r.org_id = arg[1].OrgID => (r.is_default <=> r.id \in WrittenIDs)
       /\ \A b \in arg[2] : b.org_id # arg[1].OrgID => b \in data_source

\* A second row is added to an organization as its default while the first
\* row is the default: afterwards the new row alone carries the flag.
C27_Witness ==
  /\ op = "AddDataSource"
  /\ result.value = "nil"
  /\ arg[1].IsDefault
  /\ \E b \in arg[2] : b.org_id = arg[1].OrgID /\ b.is_default
  /\ \E r \in data_source : r.org_id = arg[1].OrgID /\ r.id \in WrittenIDs /\ r.is_default
  /\ Cardinality({r \in data_source : r.org_id = arg[1].OrgID /\ r.is_default}) = 1

====
